---- MODULE Spec2Model ----
(***************************************************************************)
(* State-machine models of the enrichment scripts of the repository.       *)
(*                                                                         *)
(* Every script is a batch job of its own, so every script has its own     *)
(* variables (prefixed rem_, mis_, chunk_, mb_, all_, slp_) and its own    *)
(* specification; under the specification of one script the variables of   *)
(* the other scripts are parked at Idle and never change.                  *)
(*                                                                         *)
(* Tables are sequences of rows, a row is a function from column names to  *)
(* cell values, and NaN is the pandas missing value.  Python row index i   *)
(* is position i + 1 of the sequence.                                      *)
(*                                                                         *)
(* The save intervals and START_INDEX of the scripts (25, 50, 100, 500,    *)
(* 27271) are scaled down to small values so that a run crosses them       *)
(* within a few rows; the scaled values are bounds of the model.           *)
(***************************************************************************)
EXTENDS Integers, Sequences, FiniteSets, TLC

VARIABLES
    \* enrich_remaining.py
    rem_df, rem_loaded, rem_file, rem_processed, rem_pc, rem_youtube, rem_last,
    \* enrich_missing.py
    mis_existing_df, mis_new_rows, mis_processed, mis_pc, mis_resume_from,
    mis_output, mis_temp, mis_original, mis_interrupted, mis_youtube, mis_world,
    \* dj_chunk_runner.py
    chunk_df, chunk_start, chunk_end, chunk_rows, chunk_pc, chunk_outfile, chunk_last,
    \* enrich_musicbrainz.py
    mb_df, mb_loaded, mb_idx, mb_processed, mb_pc, mb_file, mb_saved_at, mb_resume_from,
    \* enrich_all_artists_musicbrainz.py
    all_df, all_idx, all_processed, all_pc, all_file, all_saved_at, all_resume_from,
    all_runs, all_last, all_guessed,
    \* social_links_pipeline.py
    slp_world, slp_cache, slp_cache_loaded, slp_cache_file, slp_checkpoint, slp_sheet,
    slp_loaded, slp_artists, slp_queue, slp_worker, slp_completed, slp_results,
    slp_idx, slp_pc, slp_runs,
    \* soundcharts_enrichment.py
    sch_df, sch_idx, sch_results, sch_file, sch_pc, sch_last, sch_trace,
    \* name-search selection: the candidates, the query, each client's result
    sel_items, sel_name, sel_out, sel_done,
    \* SpotifyClient token handling: the clock and the token, the position, the requests of the last search
    tok_st, tok_pc, tok_last,
    \* startup of a run: the script, the header of its input table, the position, what the run has done
    st_script, st_header, st_pc, st_out,
    \* enrich_dj_parallel.py: the input, the range, the rows built, the position, the output file
    par_df, par_start, par_end, par_rows, par_pc, par_outfile,
    \* handle extraction: the URL, each script's result, the scripts that have run
    ext_url, ext_out, ext_done,
    \* fill_rappers_social_links.py: the artist, a given handle, the platform, what the templater made of them
    fill_name, fill_handle, fill_platform, fill_out,
    \* URL guessing of the three templaters: the name, the script, the platform, the cells written
    gs_name, gs_script, gs_platform, gs_out,
    \* SoundchartsClient._make_request step by step: the artist, the position, the depth of the recursion, the outcome per artist
    mr_artist, mr_pc, mr_depth, mr_outcomes

varsRem == <<rem_df, rem_loaded, rem_file, rem_processed, rem_pc, rem_youtube, rem_last>>
varsMis == <<mis_existing_df, mis_new_rows, mis_processed, mis_pc, mis_resume_from,
             mis_output, mis_temp, mis_original, mis_interrupted, mis_youtube, mis_world>>
varsChunk == <<chunk_df, chunk_start, chunk_end, chunk_rows, chunk_pc, chunk_outfile,
               chunk_last>>
varsMB == <<mb_df, mb_loaded, mb_idx, mb_processed, mb_pc, mb_file, mb_saved_at,
            mb_resume_from>>
varsAll == <<all_df, all_idx, all_processed, all_pc, all_file, all_saved_at,
             all_resume_from, all_runs, all_last, all_guessed>>
varsSLP == <<slp_world, slp_cache, slp_cache_loaded, slp_cache_file, slp_checkpoint,
             slp_sheet, slp_loaded, slp_artists, slp_queue, slp_worker, slp_completed,
             slp_results, slp_idx, slp_pc, slp_runs>>
varsSch == <<sch_df, sch_idx, sch_results, sch_file, sch_pc, sch_last, sch_trace>>
varsSel == <<sel_items, sel_name, sel_out, sel_done>>
varsTok == <<tok_st, tok_pc, tok_last>>
varsSt == <<st_script, st_header, st_pc, st_out>>
varsPar == <<par_df, par_start, par_end, par_rows, par_pc, par_outfile>>
varsExt == <<ext_url, ext_out, ext_done>>
varsFill == <<fill_name, fill_handle, fill_platform, fill_out>>
varsGs == <<gs_name, gs_script, gs_platform, gs_out>>
varsMr == <<mr_artist, mr_pc, mr_depth, mr_outcomes>>
vars == <<varsRem, varsMis, varsChunk, varsMB, varsAll, varsSLP, varsSch, varsSel, varsTok, varsSt, varsPar, varsExt, varsFill, varsGs, varsMr>>

\* what a script leaves alone: the variables of the other scripts
othersRem == <<varsMis, varsChunk, varsMB, varsAll, varsSLP, varsSch, varsSel, varsTok, varsSt, varsPar, varsExt, varsFill, varsGs, varsMr>>
othersMis == <<varsRem, varsChunk, varsMB, varsAll, varsSLP, varsSch, varsSel, varsTok, varsSt, varsPar, varsExt, varsFill, varsGs, varsMr>>
othersChunk == <<varsRem, varsMis, varsMB, varsAll, varsSLP, varsSch, varsSel, varsTok, varsSt, varsPar, varsExt, varsFill, varsGs, varsMr>>
othersMB == <<varsRem, varsMis, varsChunk, varsAll, varsSLP, varsSch, varsSel, varsTok, varsSt, varsPar, varsExt, varsFill, varsGs, varsMr>>
othersAll == <<varsRem, varsMis, varsChunk, varsMB, varsSLP, varsSch, varsSel, varsTok, varsSt, varsPar, varsExt, varsFill, varsGs, varsMr>>
othersSLP == <<varsRem, varsMis, varsChunk, varsMB, varsAll, varsSch, varsSel, varsTok, varsSt, varsPar, varsExt, varsFill, varsGs, varsMr>>
othersSch == <<varsRem, varsMis, varsChunk, varsMB, varsAll, varsSLP, varsSel, varsTok, varsSt, varsPar, varsExt, varsFill, varsGs, varsMr>>
othersSel == <<varsRem, varsMis, varsChunk, varsMB, varsAll, varsSLP, varsSch, varsTok, varsSt, varsPar, varsExt, varsFill, varsGs, varsMr>>
othersTok == <<varsRem, varsMis, varsChunk, varsMB, varsAll, varsSLP, varsSch, varsSel, varsSt, varsPar, varsExt, varsFill, varsGs, varsMr>>
othersSt == <<varsRem, varsMis, varsChunk, varsMB, varsAll, varsSLP, varsSch, varsSel, varsTok, varsPar, varsExt, varsFill, varsGs, varsMr>>
othersPar == <<varsRem, varsMis, varsChunk, varsMB, varsAll, varsSLP, varsSch, varsSel, varsTok, varsSt, varsExt, varsFill, varsGs, varsMr>>
othersExt == <<varsRem, varsMis, varsChunk, varsMB, varsAll, varsSLP, varsSch, varsSel, varsTok, varsSt, varsPar, varsFill, varsGs, varsMr>>
othersFill == <<varsRem, varsMis, varsChunk, varsMB, varsAll, varsSLP, varsSch, varsSel, varsTok, varsSt, varsPar, varsExt, varsGs, varsMr>>
othersGs == <<varsRem, varsMis, varsChunk, varsMB, varsAll, varsSLP, varsSch, varsSel, varsTok, varsSt, varsPar, varsExt, varsFill, varsMr>>
othersMr == <<varsRem, varsMis, varsChunk, varsMB, varsAll, varsSLP, varsSch, varsSel, varsTok, varsSt, varsPar, varsExt, varsFill, varsGs>>

NaN == "NaN"
Idle == "idle"

isna(v) == v = NaN

RECURSIVE Join(_, _)
\* sep.join(parts)
Join(parts, sep) ==
    IF parts = <<>> THEN ""
    ELSE IF Len(parts) = 1 THEN parts[1]
    ELSE parts[1] \o sep \o Join(Tail(parts), sep)

\* character i of the string s
Char(s, i) == SubSeq(s, i, i)

RECURSIVE rstrip(_, _)
\* s.rstrip(ch)
rstrip(s, ch) ==
    IF Len(s) > 0 /\ Char(s, Len(s)) = ch THEN rstrip(SubSeq(s, 1, Len(s) - 1), ch) ELSE s

RECURSIVE SplitFirst(_, _)
\* s.split(ch)[0]
SplitFirst(s, ch) ==
    IF Len(s) = 0 \/ Char(s, 1) = ch THEN ""
    ELSE Char(s, 1) \o SplitFirst(Tail(s), ch)

RECURSIVE SplitLast(_, _)
\* s.split(ch)[-1]
SplitLast(s, ch) ==
    IF Len(s) = 0 \/ Char(s, Len(s)) = ch THEN ""
    ELSE SplitLast(SubSeq(s, 1, Len(s) - 1), ch) \o Char(s, Len(s))

RECURSIVE AfterFirst(_, _)
\* s.split(sub)[1] for a string s that contains sub
AfterFirst(s, sub) ==
    IF Len(s) < Len(sub) THEN ""
    ELSE IF SubSeq(s, 1, Len(sub)) = sub THEN SubSeq(s, Len(sub) + 1, Len(s))
    ELSE AfterFirst(Tail(s), sub)

\* sub in s
Contains(s, sub) ==
    \E i \in 1..(Len(s) - Len(sub) + 1) : SubSeq(s, i, i + Len(sub) - 1) = sub

\* n copies of the response r
RECURSIVE Repeat(_, _)
Repeat(r, n) == IF n = 0 THEN <<>> ELSE <<r>> \o Repeat(r, n - 1)

\* The answers one search is given: up to MaxRetry429 rate-limit answers and
\* then an answer that ends the search.
MaxRetry429 == 2

IdleRem ==
    /\ rem_df = Idle /\ rem_loaded = Idle /\ rem_file = Idle /\ rem_processed = 0
    /\ rem_pc = Idle /\ rem_youtube = FALSE /\ rem_last = [pos |-> 0]

IdleMis ==
    /\ mis_existing_df = Idle /\ mis_new_rows = Idle /\ mis_processed = 0
    /\ mis_pc = Idle /\ mis_resume_from = 0 /\ mis_output = Idle /\ mis_temp = Idle
    /\ mis_original = Idle /\ mis_interrupted = 0 /\ mis_youtube = FALSE
    /\ mis_world = Idle

IdleChunk ==
    /\ chunk_df = Idle /\ chunk_start = 0 /\ chunk_end = 0 /\ chunk_rows = Idle
    /\ chunk_pc = Idle /\ chunk_outfile = Idle /\ chunk_last = [n429 |-> 0]

IdleMB ==
    /\ mb_df = Idle /\ mb_loaded = Idle /\ mb_idx = 0 /\ mb_processed = 0
    /\ mb_pc = Idle /\ mb_file = Idle /\ mb_saved_at = 0 /\ mb_resume_from = 0

IdleAll ==
    /\ all_df = Idle /\ all_idx = 0 /\ all_processed = 0 /\ all_pc = Idle
    /\ all_file = Idle /\ all_saved_at = 0 /\ all_resume_from = 0 /\ all_runs = 0
    /\ all_last = [pos |-> 0] /\ all_guessed = [main |-> FALSE]

IdleSLP ==
    /\ slp_world = Idle /\ slp_cache = {} /\ slp_cache_loaded = {}
    /\ slp_cache_file = Idle /\ slp_checkpoint = Idle /\ slp_sheet = Idle
    /\ slp_loaded = <<>> /\ slp_artists = <<>> /\ slp_queue = <<>>
    /\ slp_worker = Idle /\ slp_completed = {} /\ slp_results = <<>>
    /\ slp_idx = 0 /\ slp_pc = Idle /\ slp_runs = 0

IdleSch ==
    /\ sch_df = Idle /\ sch_idx = 0 /\ sch_results = <<>> /\ sch_file = Idle /\ sch_pc = Idle
    /\ sch_last = [pos |-> 0] /\ sch_trace = [last |-> Idle]

IdleSel ==
    /\ sel_items = <<>> /\ sel_name = Idle /\ sel_out = [spotify |-> Idle] /\ sel_done = {}

IdleTok ==
    /\ tok_st = [now |-> 0] /\ tok_pc = Idle /\ tok_last = [requests |-> <<>>]

IdleSt ==
    /\ st_script = Idle /\ st_header = <<>> /\ st_pc = Idle /\ st_out = [requests |-> 0]

IdlePar ==
    /\ par_df = Idle /\ par_start = 0 /\ par_end = 0 /\ par_rows = <<>> /\ par_pc = Idle /\ par_outfile = Idle

IdleExt ==
    /\ ext_url = Idle /\ ext_out = [enrich_musicbrainz |-> Idle] /\ ext_done = {}

IdleFill ==
    /\ fill_name = Idle /\ fill_handle = Idle /\ fill_platform = Idle /\ fill_out = [pc |-> Idle]

IdleGs ==
    /\ gs_name = Idle /\ gs_script = Idle /\ gs_platform = Idle /\ gs_out = [pc |-> Idle]

IdleMr ==
    /\ mr_artist = 0 /\ mr_pc = Idle /\ mr_depth = 0 /\ mr_outcomes = <<>>

(***************************************************************************)
(* enrich_remaining.py                                                     *)
(***************************************************************************)

Rem_START_INDEX == 1
Rem_SAVE_INTERVAL == 2
\* rows at and after START_INDEX
RemRows == 2

expected_columns ==
    << "artist_name", "soundcharts_uuid", "spotify_id",
       "instagram_url", "instagram_handle",
       "tiktok_url", "tiktok_handle",
       "youtube_url", "youtube_channel_id",
       "soundcloud_url", "soundcloud_handle",
       "twitter_url", "twitter_handle",
       "facebook_url", "website_url",
       "lookup_status", "error_message" >>

Columns == { expected_columns[i] : i \in 1..Len(expected_columns) }

\* The rows a rappers_enriched.csv holds before the run: a row Soundcharts
\* never matched, a row Soundcharts filled in part, a row an earlier run
\* left with an error, a row that is complete, and a row an earlier run of
\* this script filled from Spotify alone.
RemRowTemplates ==
    LET blank == [c \in Columns |-> NaN] IN
    << [blank EXCEPT !["artist_name"] = "drake"],
       [blank EXCEPT !["artist_name"] = "dj khaled", !["soundcharts_uuid"] = "uuid0",
                     !["spotify_id"] = "sp0", !["instagram_url"] = "ig0",
                     !["soundcloud_handle"] = "sch0", !["lookup_status"] = "success"],
       [blank EXCEPT !["artist_name"] = "lil x", !["youtube_url"] = "yt0",
                     !["youtube_channel_id"] = "ytc0", !["lookup_status"] = "not_found",
                     !["error_message"] = "err0"],
       [c \in Columns |-> IF c = "lookup_status" THEN "success"
                          ELSE IF c = "error_message" THEN NaN ELSE c \o "0"],
       [blank EXCEPT !["artist_name"] = "future", !["spotify_id"] = "sp1",
                     !["lookup_status"] = "spotify"] >>

\* The tables the run may load: the rows before START_INDEX are the
\* templates in turn, the rows from START_INDEX on are the templates in
\* turn from any first template, so that every template is met at every
\* index of the loop.
RemTables ==
    LET n == Len(RemRowTemplates)
        head == [i \in 1..Rem_START_INDEX |-> RemRowTemplates[((i - 1) % n) + 1]]
    IN  { head \o [i \in 1..RemRows |-> RemRowTemplates[((k + i - 1) % n) + 1]] :
            k \in 0..(n - 1) }

\* What the Spotify API (or the token endpoint) answers to one attempt.
SpAnswers == {"429", "items", "empty", "http_error", "network_error", "malformed",
              "token_error"}
SpAnswerSeqs ==
    { Repeat("429", n) \o <<a>> : n \in 0..MaxRetry429, a \in SpAnswers \ {"429"} }

RECURSIVE Rem_search_artist(_)
\* SpotifyClient.search_artist: kind is "item", "none" or "raise"; sent counts
\* the search requests, sleeps the Retry-After pauses.
Rem_search_artist(answers) ==
    LET a == Head(answers) IN
    CASE a = "token_error" -> [kind |-> "raise", sent |-> 0, sleeps |-> 0]
      [] a = "network_error" -> [kind |-> "raise", sent |-> 1, sleeps |-> 0]
      [] a = "429" ->
            LET again == Rem_search_artist(Tail(answers)) IN
            [kind |-> again.kind, sent |-> again.sent + 1, sleeps |-> again.sleeps + 1]
      [] a = "http_error" -> [kind |-> "none", sent |-> 1, sleeps |-> 0]
      [] a = "malformed" -> [kind |-> "raise", sent |-> 1, sleeps |-> 0]
      [] a = "empty" -> [kind |-> "none", sent |-> 1, sleeps |-> 0]
      [] OTHER -> [kind |-> "item", sent |-> 1, sleeps |-> 0]

YtAnswers == {"found", "none", "quota_403", "http_error", "network_error"}

\* YouTubeClient.search_channel
Rem_search_channel(answer) ==
    CASE answer = "found" -> "found"
      [] answer = "network_error" -> "raise"
      [] OTHER -> "none"

ScAnswers == {"found", "none", "error"}

\* search_soundcloud
Rem_search_soundcloud(answer) == IF answer = "found" THEN "found" ELSE "none"

\* enrich_row on a copy of the row: the updated copy, the sources that
\* contributed, whether an exception left the function, and the providers
\* that were called.
enrich_row(row, youtube, spAnswers, ytAnswer, scAnswer) ==
    LET sp == Rem_search_artist(spAnswers)
        spFills == sp.kind = "item" /\ isna(row["spotify_id"])
        row1 == IF spFills THEN [row EXCEPT !["spotify_id"] = "sp_new"] ELSE row
        src1 == IF spFills THEN <<"spotify">> ELSE <<>>
        ytCalled == youtube /\ isna(row1["youtube_url"])
        yt == IF ytCalled THEN Rem_search_channel(ytAnswer) ELSE "none"
        row2 == IF yt = "found"
                THEN [row1 EXCEPT !["youtube_url"] = "yt_new",
                                  !["youtube_channel_id"] = "ytc_new"]
                ELSE row1
        src2 == IF yt = "found" THEN Append(src1, "youtube_api") ELSE src1
        scCalled == isna(row2["soundcloud_url"])
        sc == IF scCalled THEN Rem_search_soundcloud(scAnswer) ELSE "none"
        row3 == IF sc = "found"
                THEN [row2 EXCEPT !["soundcloud_url"] = "sc_new",
                                  !["soundcloud_handle"] =
                                      IF isna(@) THEN "sch_new" ELSE @]
                ELSE row2
        src3 == IF sc = "found" THEN Append(src2, "soundcloud_search") ELSE src2
    IN  IF sp.kind = "raise"
        THEN [raised |-> TRUE, error |-> "spotify:" \o spAnswers[Len(spAnswers)],
              row |-> row, sources |-> <<>>, called |-> {"spotify"}, spotify |-> sp]
        ELSE IF yt = "raise"
        THEN [raised |-> TRUE, error |-> "youtube:" \o ytAnswer,
              row |-> row1, sources |-> src1, called |-> {"spotify", "youtube"},
              spotify |-> sp]
        ELSE [raised |-> FALSE, error |-> NaN, row |-> row3, sources |-> src3,
              called |-> {"spotify"} \cup (IF ytCalled THEN {"youtube"} ELSE {})
                                     \cup (IF scCalled THEN {"soundcloud"} ELSE {}),
              spotify |-> sp]

\* The write-back loop of run_pipeline: only cells that are NaN in df take
\* the value of the updated row.
Rem_write_back(old, updated) ==
    [c \in Columns |-> IF isna(old[c]) /\ ~isna(updated[c]) THEN updated[c] ELSE old[c]]

\* The lookup_status run_pipeline stores when sources contributed.
Rem_new_status(existing_status, sources) ==
    LET source_tag == Join(sources, ",") IN
    IF existing_status = "success" THEN "success+" \o source_tag ELSE source_tag

\* The row run_pipeline leaves in df after the try block.
Rem_row_after(old, res) ==
    IF res.raised
    THEN [old EXCEPT !["error_message"] = res.error]
    ELSE LET merged == Rem_write_back(old, res.row) IN
         IF res.sources /= <<>>
         THEN [merged EXCEPT !["lookup_status"] =
                   Rem_new_status(merged["lookup_status"], res.sources)]
         ELSE merged

\* a loop that starts at row 0 instead of START_INDEX
Rem_idx_from_zero(processed) == processed

\* idx of run_pipeline's loop, range(START_INDEX, total_rows), after
\* processed iterations
Rem_idx(processed) == Rem_START_INDEX + processed

\* what the run has seen of the YouTube quota after one more row: "no" 403
\* so far, "seen" once a YouTube search was answered 403, "request_after"
\* once a YouTube search was sent after that
Rem_quota(before, called, ytAnswer) ==
    CASE before /= "no" /\ called -> "request_after"
      [] before = "no" /\ called /\ ytAnswer = "quota_403" -> "seen"
      [] OTHER -> before

RemInit ==
    /\ rem_df \in RemTables
    /\ rem_loaded = rem_df
    /\ rem_file = rem_df
    /\ rem_processed = 0
    /\ rem_pc = "loop"
    /\ rem_youtube \in BOOLEAN
    /\ rem_last = [pos |-> 0, answer |-> "none", spotify |-> "none", called |-> {},
                   raised |-> FALSE, sent |-> FALSE, quota |-> "no"]

\* One iteration of the for loop of run_pipeline, with its periodic save.
RemProcessRow ==
    /\ rem_pc = "loop"
    /\ Rem_idx(rem_processed) < Len(rem_df)
    /\ \E spAnswers \in SpAnswerSeqs, ytAnswer \in YtAnswers, scAnswer \in ScAnswers :
         LET pos == Rem_idx(rem_processed) + 1
             res == enrich_row(rem_df[pos], rem_youtube, spAnswers, ytAnswer, scAnswer)
             df2 == [rem_df EXCEPT ![pos] = Rem_row_after(rem_df[pos], res)]
         IN  /\ rem_df' = df2
             /\ rem_processed' = rem_processed + 1
             /\ rem_file' = IF (rem_processed + 1) % Rem_SAVE_INTERVAL = 0
                            THEN df2 ELSE rem_file
             /\ rem_last' = [pos |-> pos, answer |-> spAnswers[Len(spAnswers)],
                             spotify |-> res.spotify.kind, called |-> res.called,
                             raised |-> res.raised, sent |-> res.spotify.sent > 0,
                             quota |-> Rem_quota(rem_last.quota, "youtube" \in res.called,
                                                 ytAnswer)]
    /\ UNCHANGED <<rem_loaded, rem_pc, rem_youtube>>
    /\ UNCHANGED othersRem

\* The final save of run_pipeline.
RemFinalSave ==
    /\ rem_pc = "loop"
    /\ Rem_idx(rem_processed) = Len(rem_df)
    /\ rem_file' = rem_df
    /\ rem_pc' = "done"
    /\ UNCHANGED <<rem_df, rem_loaded, rem_processed, rem_youtube, rem_last>>
    /\ UNCHANGED othersRem

InitRemaining == RemInit /\ IdleMis /\ IdleChunk /\ IdleMB /\ IdleAll /\ IdleSLP /\ IdleSch /\ IdleSel /\ IdleTok /\ IdleSt /\ IdlePar /\ IdleExt /\ IdleFill /\ IdleGs /\ IdleMr
NextRemaining == RemProcessRow \/ RemFinalSave
SpecRemaining == InitRemaining /\ [][NextRemaining]_vars

\* C27 as stated: whenever the run changes the lookup_status of a row, the
\* new value still contains the value the row had before, whatever that
\* value was.
C27_StatusNeverLosesSource ==
    rem_pc /= Idle =>
        \A i \in 1..Len(rem_df) :
            LET old == rem_loaded[i]["lookup_status"]
                new == rem_df[i]["lookup_status"]
            IN  (~isna(old) /\ new /= old) => Contains(new, old)

\* C18 as stated: after the first 403 answered to a YouTube search no
\* further YouTube request is sent for the remainder of the run.
C18_NoYouTubeRequestAfter403 ==
    rem_pc /= Idle => rem_last.quota /= "request_after"

\* C1: every cell that was non-null when the CSV was loaded holds the same
\* value in the file whenever the run has written it (each periodic save
\* and the final save).
C1_NeverOverwritesLoaded ==
    rem_pc /= Idle =>
        \A i \in 1..Len(rem_loaded) : \A c \in Columns :
            ~isna(rem_loaded[i][c]) => rem_file[i][c] = rem_loaded[i][c]

\* C3: when the Spotify call of a row fails with an error, the providers
\* that still have a field to fill (YouTube when configured and youtube_url
\* is empty, SoundCloud when soundcloud_url is empty) are still called for
\* that row.
C3_SpotifyErrorOnlySkipsSpotify ==
    (rem_pc /= Idle /\ rem_last.pos > 0
       /\ rem_last.answer \in {"network_error", "malformed", "http_error", "token_error"})
    => /\ (rem_youtube /\ isna(rem_loaded[rem_last.pos]["youtube_url"]))
             => "youtube" \in rem_last.called
       /\ isna(rem_loaded[rem_last.pos]["soundcloud_url"])
             => "soundcloud" \in rem_last.called
       /\ Len(rem_df) = Len(rem_loaded)

\* C12 as stated: enrich_row sends a request to a provider for a row only
\* when the field that provider fills was empty in the row: no Spotify
\* request when spotify_id is set, no YouTube request when youtube_url is
\* set, no SoundCloud request when soundcloud_url is set, so a fully filled
\* row costs no request.
C12_RequestOnlyForEmptyField ==
    (rem_pc /= Idle /\ rem_last.pos > 0) =>
        LET row == rem_loaded[rem_last.pos] IN
        /\ rem_last.sent => isna(row["spotify_id"])
        /\ "youtube" \in rem_last.called => isna(row["youtube_url"])
        /\ "soundcloud" \in rem_last.called => isna(row["soundcloud_url"])

\* C13: whatever the providers return or raise, every row with index below
\* START_INDEX holds in every column the value it was loaded with, in the
\* table in memory and in every file the run writes (each periodic save
\* and the final save).
C13_RowsBeforeStartUntouched ==
    rem_pc /= Idle =>
        \A i \in 1..Rem_START_INDEX : \A c \in Columns :
            /\ rem_df[i][c] = rem_loaded[i][c]
            /\ rem_file[i][c] = rem_loaded[i][c]

\* C13 witness: the run has ended after a provider raised for the last row
\* and the final file differs from the loaded table in a row at or after
\* START_INDEX.
C13_Witness ==
    /\ rem_pc = "done"
    /\ rem_last.raised
    /\ \E i \in (Rem_START_INDEX + 1)..Len(rem_file) : rem_file[i] /= rem_loaded[i]
    /\ \A i \in 1..Rem_START_INDEX : rem_file[i] = rem_loaded[i]

(***************************************************************************)
(* enrich_missing.py                                                       *)
(***************************************************************************)

Mis_SAVE_INTERVAL == 2
\* rows of rappers_missing.csv
MisRows == 3
\* how often a run is killed and started again with --resume-from
MaxInterrupts == 2

\* SpotifyClient.search_artist of enrich_missing.py: the same control flow as
\* the one of enrich_remaining.py.
Mis_search_artist(answers) == Rem_search_artist(answers)

\* YouTubeClient.search_channel of enrich_missing.py, quota flag aside.
Mis_search_channel(answer) ==
    CASE answer = "found" -> "found"
      [] answer = "network_error" -> "raise"
      [] OTHER -> "none"

\* enrich_artist with a status that names Spotify whenever a Spotify search
\* was made
Mis_enrich_artist_always_spotify(artist_name, soundcharts_uuid, youtube, spAnswers, ytAnswer, scAnswer) ==
    [[c \in Columns |-> NaN] EXCEPT !["artist_name"] = artist_name,
                                    !["soundcharts_uuid"] = soundcharts_uuid,
                                    !["lookup_status"] = "spotify"]

\* enrich_artist: every provider call sits in its own try/except, so a
\* raising provider counts as no result.
Mis_enrich_artist(artist_name, soundcharts_uuid, youtube, spAnswers, ytAnswer, scAnswer) ==
    LET blank == [c \in Columns |-> NaN]
        row0 == [blank EXCEPT !["artist_name"] = artist_name,
                              !["soundcharts_uuid"] = soundcharts_uuid]
        sp == Mis_search_artist(spAnswers).kind = "item"
        row1 == IF sp THEN [row0 EXCEPT !["spotify_id"] = "sp_new"] ELSE row0
        src1 == IF sp THEN <<"spotify">> ELSE <<>>
        yt == youtube /\ Mis_search_channel(ytAnswer) = "found"
        row2 == IF yt THEN [row1 EXCEPT !["youtube_url"] = "yt_new",
                                        !["youtube_channel_id"] = "ytc_new"]
                ELSE row1
        src2 == IF yt THEN Append(src1, "youtube_api") ELSE src1
        sc == Rem_search_soundcloud(scAnswer) = "found"
        row3 == IF sc THEN [row2 EXCEPT !["soundcloud_url"] = "sc_new",
                                        !["soundcloud_handle"] = "sch_new"]
                ELSE row2
        src3 == IF sc THEN Append(src2, "soundcloud_search") ELSE src2
    IN  [row3 EXCEPT !["lookup_status"] =
             IF src3 /= <<>> THEN Join(src3, ",") ELSE "no_results"]

\* The row the run builds for missing artist i under the provider answers
\* of this world.
MisEnriched(i) ==
    Mis_enrich_artist(i, NaN, mis_youtube,
                      <<mis_world[i].sp>>, mis_world[i].yt, mis_world[i].sc)

\* pd.concat([existing_df, DataFrame(new_rows)])
Mis_combined == mis_existing_df \o mis_new_rows

MisInit ==
    /\ mis_original = << [c \in Columns |-> IF c = "artist_name" THEN 0
                                            ELSE IF c = "lookup_status" THEN "success"
                                            ELSE NaN] >>
    /\ mis_existing_df = mis_original
    /\ mis_output = mis_original
    /\ mis_temp = [exists |-> FALSE, rows |-> <<>>]
    /\ mis_new_rows = <<>>
    /\ mis_processed = 0
    /\ mis_resume_from = 0
    /\ mis_pc = "loop"
    /\ mis_interrupted = 0
    /\ mis_youtube \in BOOLEAN
    /\ mis_world \in [1..MisRows -> [sp : {"items", "empty", "network_error"},
                                     yt : IF mis_youtube THEN {"found", "none"}
                                          ELSE {"none"},
                                     sc : {"found", "none"}]]

\* A loop iteration over a row below resume_from.
MisSkipRow ==
    /\ mis_pc = "loop"
    /\ mis_processed < MisRows
    /\ mis_processed < mis_resume_from
    /\ mis_processed' = mis_processed + 1
    /\ UNCHANGED <<mis_existing_df, mis_new_rows, mis_pc, mis_resume_from, mis_output,
                   mis_temp, mis_original, mis_interrupted, mis_youtube, mis_world>>
    /\ UNCHANGED othersMis

\* A loop iteration that enriches a row; on a multiple of SAVE_INTERVAL it
\* writes the progress file and goes on to write the main CSV.
MisProcessRow ==
    /\ mis_pc = "loop"
    /\ mis_processed < MisRows
    /\ mis_processed >= mis_resume_from
    /\ LET rows2 == Append(mis_new_rows, MisEnriched(mis_processed + 1))
           save == (mis_processed + 1) % Mis_SAVE_INTERVAL = 0
       IN  /\ mis_new_rows' = rows2
           /\ mis_processed' = mis_processed + 1
           /\ mis_temp' = IF save THEN [exists |-> TRUE, rows |-> rows2] ELSE mis_temp
           /\ mis_pc' = IF save THEN "temp_saved" ELSE "loop"
    /\ UNCHANGED <<mis_existing_df, mis_resume_from, mis_output, mis_original,
                   mis_interrupted, mis_youtube, mis_world>>
    /\ UNCHANGED othersMis

\* The second write of a periodic save: existing rows plus new rows go to
\* rappers_enriched.csv.
MisSaveMain ==
    /\ mis_pc = "temp_saved"
    /\ mis_output' = Mis_combined
    /\ mis_pc' = "loop"
    /\ UNCHANGED <<mis_existing_df, mis_new_rows, mis_processed, mis_resume_from,
                   mis_temp, mis_original, mis_interrupted, mis_youtube, mis_world>>
    /\ UNCHANGED othersMis

\* The final save and the removal of the progress file.
MisFinalSave ==
    /\ mis_pc = "loop"
    /\ mis_processed = MisRows
    /\ mis_output' = Mis_combined
    /\ mis_temp' = [exists |-> FALSE, rows |-> <<>>]
    /\ mis_pc' = "done"
    /\ UNCHANGED <<mis_existing_df, mis_new_rows, mis_processed, mis_resume_from,
                   mis_original, mis_interrupted, mis_youtube, mis_world>>
    /\ UNCHANGED othersMis

\* The run is killed and started again with --resume-from set to the number
\* of rows of enrich_missing_progress.csv (0 when there is no such file):
\* run() loads the main CSV and, when resuming, the progress file.
MisInterruptAndResume ==
    /\ mis_pc \in {"loop", "temp_saved"}
    /\ mis_interrupted < MaxInterrupts
    /\ LET resume_from == IF mis_temp.exists THEN Len(mis_temp.rows) ELSE 0 IN
       /\ mis_resume_from' = resume_from
       /\ mis_existing_df' = mis_output
       /\ mis_new_rows' = IF resume_from > 0 /\ mis_temp.exists
                          THEN mis_temp.rows ELSE <<>>
    /\ mis_processed' = 0
    /\ mis_pc' = "loop"
    /\ mis_interrupted' = mis_interrupted + 1
    /\ UNCHANGED <<mis_output, mis_temp, mis_original, mis_youtube, mis_world>>
    /\ UNCHANGED othersMis

InitMissing == MisInit /\ IdleRem /\ IdleChunk /\ IdleMB /\ IdleAll /\ IdleSLP /\ IdleSch /\ IdleSel /\ IdleTok /\ IdleSt /\ IdlePar /\ IdleExt /\ IdleFill /\ IdleGs /\ IdleMr
NextMissing ==
    \/ MisSkipRow \/ MisProcessRow \/ MisSaveMain \/ MisFinalSave
    \/ MisInterruptAndResume
SpecMissing == InitMissing /\ [][NextMissing]_vars

\* how often row x occurs in table t
Count(t, x) == Cardinality({ i \in 1..Len(t) : t[i] = x })

\* the tables s and t hold the same rows up to order
SameRows(s, t) ==
    /\ Len(s) = Len(t)
    /\ \A i \in 1..Len(s) : Count(s, s[i]) = Count(t, s[i])

\* C2: a finished run, interrupted and resumed or not, leaves in
\* rappers_enriched.csv the original rows plus exactly one row per missing
\* artist, the rows of an uninterrupted run, up to order.
C2_ResumeEqualsUninterrupted ==
    mis_pc = "done" =>
        SameRows(mis_output, mis_original \o [i \in 1..MisRows |-> MisEnriched(i)])

(***************************************************************************)
(* dj_chunk_runner.py                                                      *)
(***************************************************************************)

Chunk_SAVE_INTERVAL == 2
\* rows of dj_producers_input.csv
ChunkTotal == 3

\* how many of the answers are rate-limit answers
Count429(answers) == Cardinality({ i \in 1..Len(answers) : answers[i] = "429" })

RECURSIVE Chunk_search(_, _)
\* SpotifyClient.search: the token refresh sits before the try block, the
\* request, the 429 retry (a recursive call) and the parsing sit inside it
\* under a bare except.  depth is the depth of the recursion: an exception
\* of a nested call is caught by the try block of the caller.
Chunk_search(answers, depth) ==
    LET a == Head(answers) IN
    CASE a = "token_error" ->
            [kind |-> IF depth = 0 THEN "raise" ELSE "none", sent |-> 0, sleeps |-> 0]
      [] a = "429" ->
            LET again == Chunk_search(Tail(answers), depth + 1) IN
            [kind |-> again.kind, sent |-> again.sent + 1, sleeps |-> again.sleeps + 1]
      [] a = "items" -> [kind |-> "item", sent |-> 1, sleeps |-> 0]
      [] OTHER -> [kind |-> "none", sent |-> 1, sleeps |-> 0]

\* sc_search
Chunk_sc_search(answer) == IF answer = "found" THEN "found" ELSE "none"

\* The row process builds from the two provider results.
Chunk_row(name, uuid, sp, sc) ==
    LET blank == [c \in Columns |-> NaN]
        r0 == [blank EXCEPT !["artist_name"] = name, !["soundcharts_uuid"] = uuid]
        r1 == IF sp = "item" THEN [r0 EXCEPT !["spotify_id"] = "sp_new"] ELSE r0
        src1 == IF sp = "item" THEN <<"spotify">> ELSE <<>>
        r2 == IF sc = "found"
              THEN [r1 EXCEPT !["soundcloud_url"] = "sc_new",
                              !["soundcloud_handle"] = "sch_new"]
              ELSE r1
        src2 == IF sc = "found" THEN Append(src1, "soundcloud") ELSE src1
    IN  [r2 EXCEPT !["lookup_status"] =
            IF src2 /= <<>> THEN Join(src2, ",") ELSE "no_results"]

\* a loop that counts from 0 whatever start is
Chunk_i_from_zero(start, n) == n

\* i of the loop of process, range(start, end), after n iterations
Chunk_i(start, n) == start + n

ChunkInit ==
    /\ chunk_df = [i \in 1..ChunkTotal |->
                      [artist_name |-> i,
                       soundcharts_uuid |-> IF i % 2 = 0 THEN "uuid0" ELSE NaN]]
    /\ chunk_start \in 0..ChunkTotal
    /\ \E end \in chunk_start..(ChunkTotal + 1) :
          chunk_end = IF end < ChunkTotal THEN end ELSE ChunkTotal
    /\ chunk_rows = <<>>
    /\ chunk_pc = "loop"
    /\ chunk_outfile = [exists |-> FALSE, rows |-> <<>>]
    /\ chunk_last = [n429 |-> 0, sent |-> 0, sleeps |-> 0, kind |-> "none"]

\* One iteration of the for loop of process.  An exception that leaves
\* sp.search leaves process: nothing catches it.
ChunkProcessRow ==
    /\ chunk_pc = "loop"
    /\ Chunk_i(chunk_start, Len(chunk_rows)) < chunk_end
    /\ \E answers \in SpAnswerSeqs, scAnswer \in ScAnswers :
         LET row == chunk_df[Chunk_i(chunk_start, Len(chunk_rows)) + 1]
             res == Chunk_search(answers, 0)
             r == Chunk_row(row.artist_name, row.soundcharts_uuid, res.kind,
                            Chunk_sc_search(scAnswer))
             rows2 == Append(chunk_rows, r)
         IN  /\ chunk_last' = [n429 |-> Count429(answers), sent |-> res.sent,
                               sleeps |-> res.sleeps, kind |-> res.kind]
             /\ IF res.kind = "raise"
                THEN /\ chunk_pc' = "aborted"
                     /\ UNCHANGED <<chunk_rows, chunk_outfile>>
                ELSE /\ chunk_pc' = "loop"
                     /\ chunk_rows' = rows2
                     /\ chunk_outfile' =
                           IF Len(rows2) % Chunk_SAVE_INTERVAL = 0
                           THEN [exists |-> TRUE, rows |-> rows2] ELSE chunk_outfile
    /\ UNCHANGED <<chunk_df, chunk_start, chunk_end>>
    /\ UNCHANGED othersChunk

\* The final write of process.
ChunkFinalSave ==
    /\ chunk_pc = "loop"
    /\ Chunk_i(chunk_start, Len(chunk_rows)) >= chunk_end
    /\ chunk_outfile' = [exists |-> TRUE, rows |-> chunk_rows]
    /\ chunk_pc' = "done"
    /\ UNCHANGED <<chunk_df, chunk_start, chunk_end, chunk_rows, chunk_last>>
    /\ UNCHANGED othersChunk

InitChunk == ChunkInit /\ IdleRem /\ IdleMis /\ IdleMB /\ IdleAll /\ IdleSLP /\ IdleSch /\ IdleSel /\ IdleTok /\ IdleSt /\ IdlePar /\ IdleExt /\ IdleFill /\ IdleGs /\ IdleMr
NextChunk == ChunkProcessRow \/ ChunkFinalSave
SpecChunk == InitChunk /\ [][NextChunk]_vars

\* C4: no failure while enriching a row aborts process: the run never stops
\* before the end of the range, and when it is done the output file holds
\* one row per row of the range.
C4_NoRowFailureAborts ==
    /\ chunk_pc /= "aborted"
    /\ chunk_pc = "done" =>
          /\ chunk_outfile.exists
          /\ Len(chunk_outfile.rows) = chunk_end - chunk_start

\* C5: a search answered 429 sleeps once and sends exactly one retry; when
\* the retry is answered 429 too the search ends there with no result.
C5_SingleRetryOn429 ==
    (chunk_pc /= Idle /\ chunk_last.n429 >= 1) =>
        /\ chunk_last.sent <= 2
        /\ chunk_last.sleeps = 1
        /\ chunk_last.n429 >= 2 => chunk_last.kind = "none"

(***************************************************************************)
(* enrich_dj_parallel.py                                                   *)
(***************************************************************************)

Par_SAVE_INTERVAL == 2
\* rows of dj_producers_input.csv
ParTotal == 3

\* a save on the first iteration only
Par_save_due_once(idx, start_idx) == idx = start_idx

\* (idx - start_idx) % 500 == 0 and rows: rows holds the row just appended
Par_save_due(idx, start_idx) == (idx - start_idx) % Par_SAVE_INTERVAL = 0

ParInit ==
    /\ par_df = [i \in 1..ParTotal |->
                    [artist_name |-> i,
                     soundcharts_uuid |-> IF i % 2 = 0 THEN "uuid0" ELSE NaN]]
    /\ par_start \in 0..ParTotal
    /\ \E end \in par_start..(ParTotal + 1) :
          par_end = IF end < ParTotal THEN end ELSE ParTotal
    /\ par_rows = <<>>
    /\ par_pc = "loop"
    /\ par_outfile = [exists |-> FALSE, rows |-> <<>>]

\* One iteration of the for loop of run.  enrich_artist catches whatever
\* a provider raises, and search_artist answers None after any failure.
ParProcessRow ==
    /\ par_pc = "loop"
    /\ par_start + Len(par_rows) < par_end
    /\ \E sp \in {"item", "none"}, scAnswer \in ScAnswers :
         LET idx == par_start + Len(par_rows)
             row == par_df[idx + 1]
             rows2 == Append(par_rows, Chunk_row(row.artist_name, row.soundcharts_uuid,
                                                 sp, Chunk_sc_search(scAnswer)))
         IN  /\ par_rows' = rows2
             /\ par_outfile' = IF Par_save_due(idx, par_start)
                                THEN [exists |-> TRUE, rows |-> rows2] ELSE par_outfile
    /\ UNCHANGED <<par_df, par_start, par_end, par_pc>>
    /\ UNCHANGED othersPar

\* The final write of run.
ParFinalSave ==
    /\ par_pc = "loop"
    /\ par_start + Len(par_rows) >= par_end
    /\ par_outfile' = [exists |-> TRUE, rows |-> par_rows]
    /\ par_pc' = "done"
    /\ UNCHANGED <<par_df, par_start, par_end, par_rows>>
    /\ UNCHANGED othersPar

InitParallel == ParInit /\ IdleRem /\ IdleMis /\ IdleChunk /\ IdleMB /\ IdleAll /\ IdleSLP /\ IdleSch /\ IdleSel /\ IdleTok /\ IdleSt /\ IdleExt /\ IdleFill /\ IdleGs /\ IdleMr
NextParallel == ParProcessRow \/ ParFinalSave

\* dj_chunk_runner.process or enrich_dj_parallel.run, whichever is run
InitShard == InitChunk \/ InitParallel
NextShard == NextChunk \/ NextParallel
SpecShard == InitShard /\ [][NextShard]_vars

\* the names of the input rows with index in [start, end), in input order
Shard_names(df, start, end) == [k \in 1..(end - start) |-> df[start + k].artist_name]

Shard_out_names(rows) == [k \in 1..Len(rows) |-> rows[k]["artist_name"]]

\* C21: a completed call with (start, end) has written exactly one output
\* row per input row with index in [start, min(end, total)), in input
\* order.
C21_OneRowPerRowOfRange ==
    /\ chunk_pc = "done" =>
          /\ chunk_outfile.exists
          /\ Shard_out_names(chunk_outfile.rows) = Shard_names(chunk_df, chunk_start, chunk_end)
    /\ par_pc = "done" =>
          /\ par_outfile.exists
          /\ Shard_out_names(par_outfile.rows) = Shard_names(par_df, par_start, par_end)

\* a completed call of dj_chunk_runner over a range that starts after row 0
\* and holds two rows
C21_Witness ==
    /\ chunk_pc = "done" /\ chunk_start > 0 /\ chunk_end - chunk_start >= 2
    /\ Len(chunk_outfile.rows) = chunk_end - chunk_start

\* t is s or the first rows of s
IsPrefix(t, s) == Len(t) <= Len(s) /\ t = SubSeq(s, 1, Len(t))

InitStatus == InitMissing \/ InitChunk
NextStatus == NextMissing \/ NextChunk
SpecStatus == InitStatus /\ [][NextStatus]_vars

\* the lookup_status that names, comma-joined in provider order, the
\* providers of which the row holds a field, or no_results
C14_status_of(row, spotify, youtube, soundcloud) ==
    LET tags == (IF ~isna(row["spotify_id"]) THEN <<spotify>> ELSE <<>>)
                \o (IF ~isna(row["youtube_url"]) \/ ~isna(row["youtube_channel_id"])
                    THEN <<youtube>> ELSE <<>>)
                \o (IF ~isna(row["soundcloud_url"]) \/ ~isna(row["soundcloud_handle"])
                    THEN <<soundcloud>> ELSE <<>>)
    IN  IF tags = <<>> THEN "no_results" ELSE Join(tags, ",")

\* C14: in enrich_missing and in dj_chunk_runner the lookup_status of every
\* row built, in memory and in the files written, names exactly the
\* providers that filled a field of the row, comma-joined in provider
\* order, and is no_results if and only if no provider filled a field.
C14_StatusNamesContributors ==
    /\ mis_pc /= Idle =>
          /\ \A i \in 1..Len(mis_new_rows) :
                mis_new_rows[i]["lookup_status"] =
                    C14_status_of(mis_new_rows[i], "spotify", "youtube_api",
                                  "soundcloud_search")
          /\ \A i \in (Len(mis_original) + 1)..Len(mis_output) :
                mis_output[i]["lookup_status"] =
                    C14_status_of(mis_output[i], "spotify", "youtube_api",
                                  "soundcloud_search")
    /\ chunk_pc /= Idle =>
          /\ \A i \in 1..Len(chunk_rows) :
                chunk_rows[i]["lookup_status"] =
                    C14_status_of(chunk_rows[i], "spotify", "youtube_api", "soundcloud")
          /\ \A i \in 1..Len(chunk_outfile.rows) :
                chunk_outfile.rows[i]["lookup_status"] =
                    C14_status_of(chunk_outfile.rows[i], "spotify", "youtube_api",
                                  "soundcloud")

\* C14 witness: enrich_missing has written a row for which Spotify returned
\* an artist and SoundCloud and YouTube returned nothing (lookup_status
\* spotify), and a row for which the Spotify search raised and SoundCloud
\* returned a profile.
C14_Witness ==
    /\ mis_pc = "done"
    /\ \E i \in (Len(mis_original) + 1)..Len(mis_output) :
          /\ mis_output[i]["lookup_status"] = "spotify"
          /\ ~isna(mis_output[i]["spotify_id"])
          /\ isna(mis_output[i]["soundcloud_url"])
    /\ \E i \in 1..MisRows :
          /\ mis_world[i].sp = "network_error" /\ mis_world[i].sc = "found"
          /\ \E j \in (Len(mis_original) + 1)..Len(mis_output) :
                /\ mis_output[j]["artist_name"] = i
                /\ mis_output[j]["lookup_status"] = "soundcloud_search"

(***************************************************************************)
(* enrich_musicbrainz.py                                                   *)
(***************************************************************************)

MB_SAVE_INTERVAL == 2
\* rows of rappers_enriched.csv
MBTotal == 3
\* largest --resume-from
MBMaxResume == 1

MB_social_cols == {"instagram_url", "twitter_url", "facebook_url", "website_url",
                   "tiktok_url"}

\* extract_handle; None is NaN
MB_extract_handle(url) ==
    IF url = "" \/ isna(url) THEN NaN
    ELSE LET clean == SplitFirst(rstrip(url, "/"), "?")
             handle == SplitLast(clean, "/")
         IN  IF handle /= "" /\ Char(handle, 1) = "@" THEN Tail(handle) ELSE handle

MBPlatforms == {"instagram", "twitter", "facebook", "tiktok", "website"}

\* What get_artist_urls may return: the URL found per platform, "" for a
\* platform without a relation; the all-"" answer is the empty dict.
MBUrlAnswers ==
    LET none == [p \in MBPlatforms |-> ""] IN
    { none,
      [none EXCEPT !["instagram"] = "https://instagram.com/drake/"],
      [none EXCEPT !["instagram"] = "https://instagram.com/drake/?hl=en",
                   !["twitter"] = "https://twitter.com/@drake",
                   !["website"] = "https://drake.com"],
      [none EXCEPT !["tiktok"] = "https://tiktok.com/@drake?x=1",
                   !["facebook"] = "https://facebook.com/drake"] }

\* What MusicBrainzClient.search_artist may return: no artist (or a request
\* error), an artist without id, an artist with id.
MBSearchAnswers == {"none", "no_id", "match"}

MBRowTemplates ==
    LET blank == [c \in Columns |-> NaN] IN
    { [blank EXCEPT !["artist_name"] = "drake"],
      [blank EXCEPT !["artist_name"] = "dj khaled",
                    !["instagram_url"] = "https://instagram.com/djkhaled",
                    !["instagram_handle"] = "djkhaled", !["lookup_status"] = "success"],
      [blank EXCEPT !["artist_name"] = "lil x", !["instagram_handle"] = "lilx_real",
                    !["twitter_handle"] = "lilx", !["spotify_id"] = "sp0",
                    !["lookup_status"] = "success"] }

\* The "Fill in missing values" block of run and the lookup_status update.
MB_fill(row, urls) ==
    LET ig == urls["instagram"] /= "" /\ isna(row["instagram_url"])
        tw == urls["twitter"] /= "" /\ isna(row["twitter_url"])
        fb == urls["facebook"] /= "" /\ isna(row["facebook_url"])
        tt == urls["tiktok"] /= "" /\ isna(row["tiktok_url"])
        ws == urls["website"] /= "" /\ isna(row["website_url"])
        updated == ig \/ tw \/ fb \/ tt \/ ws
        existing == IF isna(row["lookup_status"]) THEN "" ELSE row["lookup_status"]
    IN  [c \in Columns |->
           CASE c = "instagram_url" /\ ig -> urls["instagram"]
             [] c = "instagram_handle" /\ ig -> MB_extract_handle(urls["instagram"])
             [] c = "twitter_url" /\ tw -> urls["twitter"]
             [] c = "twitter_handle" /\ tw -> MB_extract_handle(urls["twitter"])
             [] c = "facebook_url" /\ fb -> urls["facebook"]
             [] c = "tiktok_url" /\ tt -> urls["tiktok"]
             [] c = "tiktok_handle" /\ tt -> MB_extract_handle(urls["tiktok"])
             [] c = "website_url" /\ ws -> urls["website"]
             [] c = "lookup_status" /\ updated /\ ~Contains(existing, "musicbrainz") ->
                    IF existing /= "" THEN existing \o "+musicbrainz" ELSE "musicbrainz"
             [] OTHER -> row[c]]

MBInit ==
    /\ mb_df \in [1..MBTotal -> MBRowTemplates]
    /\ mb_loaded = mb_df
    /\ mb_file = mb_df
    /\ mb_idx = 0
    /\ mb_processed = 0
    /\ mb_saved_at = 0
    /\ mb_pc = "loop"
    /\ mb_resume_from \in 0..MBMaxResume

\* One iteration of the for loop of run.  Every continue leaves the
\* iteration before the periodic save at its end.
MBProcessRow ==
    /\ mb_pc = "loop"
    /\ mb_idx < Len(mb_df)
    /\ mb_idx' = mb_idx + 1
    /\ LET row == mb_df[mb_idx + 1]
           has_social == \E c \in MB_social_cols : ~isna(row[c])
       IN  IF mb_idx < mb_resume_from \/ has_social
           THEN UNCHANGED <<mb_df, mb_processed, mb_file, mb_saved_at>>
           ELSE /\ mb_processed' = mb_processed + 1
                /\ \E artist \in MBSearchAnswers, urls \in MBUrlAnswers :
                     IF artist /= "match" \/ \A p \in MBPlatforms : urls[p] = ""
                     THEN UNCHANGED <<mb_df, mb_file, mb_saved_at>>
                     ELSE LET df2 == [mb_df EXCEPT ![mb_idx + 1] = MB_fill(row, urls)]
                              save == (mb_processed + 1) % MB_SAVE_INTERVAL = 0
                          IN  /\ mb_df' = df2
                              /\ mb_file' = IF save THEN df2 ELSE mb_file
                              /\ mb_saved_at' = IF save THEN mb_processed + 1
                                                ELSE mb_saved_at
    /\ UNCHANGED <<mb_loaded, mb_pc, mb_resume_from>>
    /\ UNCHANGED othersMB

\* The final save of run.
MBFinalSave ==
    /\ mb_pc = "loop"
    /\ mb_idx = Len(mb_df)
    /\ mb_file' = mb_df
    /\ mb_pc' = "done"
    /\ UNCHANGED <<mb_df, mb_loaded, mb_idx, mb_processed, mb_saved_at, mb_resume_from>>
    /\ UNCHANGED othersMB

InitMB == MBInit /\ IdleRem /\ IdleMis /\ IdleChunk /\ IdleAll /\ IdleSLP /\ IdleSch /\ IdleSel /\ IdleTok /\ IdleSt /\ IdlePar /\ IdleExt /\ IdleFill /\ IdleGs /\ IdleMr
NextMB == MBProcessRow \/ MBFinalSave
SpecMB == InitMB /\ [][NextMB]_vars

\* C28 as stated: filling a missing URL leaves an existing handle
\* unchanged: a row loaded with a non-empty instagram_handle,
\* twitter_handle or tiktok_handle keeps it, whether or not the run fills
\* the URL beside it.
C28_ExistingHandleKept ==
    mb_pc /= Idle =>
        \A i \in 1..Len(mb_df) :
            \A h \in {"instagram_handle", "twitter_handle", "tiktok_handle"} :
                ~isna(mb_loaded[i][h]) => mb_df[i][h] = mb_loaded[i][h]

\* C6: whenever the count of processed rows is a multiple of SAVE_INTERVAL
\* and the loop is about to take the next row, the table was written to the
\* output CSV at that count.
C6_SaveAtEveryInterval ==
    (mb_pc = "loop" /\ mb_processed > 0 /\ mb_processed % MB_SAVE_INTERVAL = 0)
        => mb_saved_at = mb_processed

(***************************************************************************)
(* enrich_all_artists_musicbrainz.py                                       *)
(***************************************************************************)

All_SAVE_INTERVAL == 2
\* rows of the workbook
AllTotal == 2
\* runs of enrich_file over its own output
AllMaxRuns == 2

\* the keys get_artist_urls may set
AllUrlKeys ==
    {"instagram_url", "instagram_handle", "twitter_url", "twitter_handle",
     "facebook_url", "tiktok_url", "tiktok_handle", "youtube_url",
     "youtube_channel_id", "soundcloud_url", "soundcloud_handle", "website_url"}

AllColumns == {"Artist", "lookup_status", "musicbrainz_id"} \cup AllUrlKeys

\* MusicBrainzClient.extract_handle
All_extract_handle(url) ==
    IF url = "" \/ isna(url) THEN NaN
    ELSE LET clean == SplitFirst(rstrip(url, "/"), "?")
             handle == SplitLast(clean, "/")
         IN  IF handle /= "" /\ Char(handle, 1) = "@" THEN Tail(handle) ELSE handle

\* MusicBrainzClient.extract_youtube_id
All_extract_youtube_id(url) ==
    IF url = "" \/ isna(url) THEN NaN
    ELSE IF Contains(url, "/channel/")
         THEN SplitFirst(SplitFirst(AfterFirst(url, "/channel/"), "/"), "?")
    ELSE IF Contains(url, "/@")
         THEN "@" \o SplitFirst(SplitFirst(AfterFirst(url, "/@"), "/"), "?")
    ELSE NaN

RECURSIVE All_relations(_, _)
\* The loop of get_artist_urls over the relations: a later relation of a
\* platform replaces the value of an earlier one.
All_relations(rels, urls) ==
    IF rels = <<>> THEN urls
    ELSE LET url == Head(rels).url
             rel_type == Head(rels).type
             next ==
               CASE url = "" -> urls
                 [] Contains(url, "instagram.com") ->
                      [urls EXCEPT !["instagram_url"] = url,
                                   !["instagram_handle"] = All_extract_handle(url)]
                 [] Contains(url, "twitter.com") \/ Contains(url, "x.com") ->
                      [urls EXCEPT !["twitter_url"] = url,
                                   !["twitter_handle"] = All_extract_handle(url)]
                 [] Contains(url, "facebook.com") -> [urls EXCEPT !["facebook_url"] = url]
                 [] Contains(url, "tiktok.com") ->
                      [urls EXCEPT !["tiktok_url"] = url,
                                   !["tiktok_handle"] = All_extract_handle(url)]
                 [] Contains(url, "youtube.com") ->
                      [urls EXCEPT !["youtube_url"] = url,
                                   !["youtube_channel_id"] = All_extract_youtube_id(url)]
                 [] Contains(url, "soundcloud.com") ->
                      [urls EXCEPT !["soundcloud_url"] = url,
                                   !["soundcloud_handle"] = All_extract_handle(url)]
                 [] Contains(rel_type, "official") -> [urls EXCEPT !["website_url"] = url]
                 [] OTHER -> urls
         IN  All_relations(Tail(rels), next)

\* get_artist_urls: NaN stands for a key the dict does not hold; a request
\* error gives the empty dict.
All_get_artist_urls(rels) == All_relations(rels, [k \in AllUrlKeys |-> NaN])

\* The relation lists MusicBrainz may answer with.
AllRelAnswers ==
    { <<>>,
      << [url |-> "https://instagram.com/real_drake/?hl=en", type |-> "social network"],
         [url |-> "https://open.spotify.com/artist/1", type |-> "streaming"] >>,
      << [url |-> "https://www.instagram.com/champagnepapi/", type |-> "social network"],
         [url |-> "https://twitter.com/drake", type |-> "social network"],
         [url |-> "https://www.youtube.com/channel/UC123?view=1", type |-> "youtube"],
         [url |-> "https://drake.com", type |-> "official homepage"] >>,
      << [url |-> "https://www.tiktok.com/@drake", type |-> "social network"],
         [url |-> "https://soundcloud.com/drake/", type |-> "soundcloud"],
         [url |-> "https://www.youtube.com/@drake/videos", type |-> "youtube"] >> }

AllRowTemplates ==
    LET blank == [c \in AllColumns |-> NaN] IN
    { [blank EXCEPT !["Artist"] = "drake"],
      [blank EXCEPT !["Artist"] = "dj khaled",
                    !["instagram_url"] = "https://www.instagram.com/khaled",
                    !["instagram_handle"] = "khaled",
                    !["tiktok_url"] = "https://www.tiktok.com/@khaled",
                    !["tiktok_handle"] = "khaled",
                    !["lookup_status"] = "auto_generated"],
      [blank EXCEPT !["Artist"] = "lil x",
                    !["instagram_url"] = "https://www.instagram.com/lilx_real",
                    !["instagram_handle"] = "lilx_real",
                    !["youtube_url"] = "https://www.youtube.com/channel/UC9",
                    !["lookup_status"] = "success"],
      [blank EXCEPT !["Artist"] = "cardi",
                    !["twitter_url"] = "https://twitter.com/cardi",
                    !["twitter_handle"] = "cardi", !["musicbrainz_id"] = "mbid0",
                    !["lookup_status"] = "musicbrainz_verified"] }

\* str(row.get("lookup_status", ""))
All_current_status(row) ==
    IF isna(row["lookup_status"]) THEN "nan" ELSE row["lookup_status"]

\* the keys of a row the update loop of enrich_file overwrites with the
\* MusicBrainz value
All_updated_fields_overwriting(row, urls, current_status) ==
    { k \in AllUrlKeys : urls[k] /= "" /\ ~isna(urls[k]) }

\* updated_fields: the keys of a row the update loop of enrich_file sets
All_updated_fields(row, urls, current_status) ==
    { k \in AllUrlKeys :
        /\ urls[k] /= "" /\ ~isna(urls[k])
        /\ (isna(row[k]) \/ current_status = "auto_generated") }

\* The row enrich_file leaves after the update loop and the status update.
All_update(row, urls, mbid) ==
    LET updated_fields == All_updated_fields(row, urls, All_current_status(row)) IN
    [c \in AllColumns |->
       CASE c \in updated_fields -> urls[c]
         [] c = "lookup_status" /\ updated_fields /= {} -> "musicbrainz_verified"
         [] c = "musicbrainz_id" /\ updated_fields /= {} -> mbid
         [] OTHER -> row[c]]

\* enrich_dj_producers_social.clean_artist_name_for_handle; "" stands for
\* None as well, both are falsy where the result is used
clean_artist_name_for_handle(artist_name) ==
    LET upper == "ABCDEFGHIJKLMNOPQRSTUVWXYZ"
        kept == "abcdefghijklmnopqrstuvwxyz0123456789_"
        lower(ch) == IF Contains(upper, ch)
                     THEN LET i == CHOOSE j \in 1..Len(upper) : Char(upper, j) = ch
                          IN  Char(kept, i)
                     ELSE ch
        RECURSIVE map(_)
        map(t) == IF t = "" THEN "" ELSE lower(Char(t, 1)) \o map(Tail(t))
        RECURSIVE lstrip(_)
        lstrip(t) == IF t /= "" /\ Char(t, 1) = " " THEN lstrip(Tail(t)) ELSE t
        no_dj(t) == IF Len(t) >= 3 /\ SubSeq(t, 1, 3) = "dj "
                    THEN lstrip(SubSeq(t, 4, Len(t))) ELSE t
        RECURSIVE keep(_)
        keep(t) == IF t = "" THEN ""
                   ELSE IF Contains(kept, Char(t, 1)) THEN Char(t, 1) \o keep(Tail(t))
                   ELSE keep(Tail(t))
    IN  IF isna(artist_name) THEN "" ELSE keep(no_dj(map(artist_name)))

\* One iteration of the loop of enrich_dj_producers_social.main: the row
\* with every empty platform url filled from a template.
Guess_row(row) ==
    LET handle == clean_artist_name_for_handle(row["Artist"])
        insta == isna(row["instagram_url"]) /\ handle /= ""
        instagram_handle == IF insta THEN handle ELSE row["instagram_handle"]
        h == IF ~isna(instagram_handle) /\ instagram_handle /= ""
             THEN instagram_handle ELSE handle
        fill(k, v) == IF isna(row[k]) THEN v ELSE row[k]
    IN  [c \in AllColumns |->
          CASE c = "instagram_url" /\ insta -> "https://www.instagram.com/" \o handle
            [] c = "instagram_handle" /\ insta -> handle
            [] c = "tiktok_url" /\ h /= "" -> fill(c, "https://www.tiktok.com/@" \o h)
            [] c = "tiktok_handle" /\ h /= "" /\ isna(row["tiktok_url"]) -> fill(c, h)
            [] c = "youtube_url" /\ h /= "" -> fill(c, "https://www.youtube.com/@" \o h)
            [] c = "youtube_channel_id" /\ h /= "" /\ isna(row["youtube_url"]) ->
                 fill(c, "@" \o h)
            [] c = "twitter_url" /\ h /= "" -> fill(c, "https://twitter.com/" \o h)
            [] c = "twitter_handle" /\ h /= "" /\ isna(row["twitter_url"]) -> fill(c, h)
            [] c = "soundcloud_url" /\ handle /= "" ->
                 fill(c, "https://soundcloud.com/" \o handle)
            [] c = "soundcloud_handle" /\ handle /= "" /\ isna(row["soundcloud_url"]) ->
                 fill(c, handle)
            [] c = "facebook_url" /\ handle /= "" ->
                 fill(c, "https://www.facebook.com/" \o handle)
            [] c = "lookup_status" -> fill(c, "auto_generated")
            [] OTHER -> row[c]]

\* The workbook is either the output of an earlier run of the scripts or
\* still to be filled by enrich_dj_producers_social.  all_guessed.cells
\* holds the cells whose value comes from a template (in a workbook of an
\* earlier run these are the filled cells of the rows marked
\* auto_generated) and all_guessed.main tells whether main has run.
AllInit ==
    /\ all_df \in [1..AllTotal -> AllRowTemplates]
    /\ all_file = all_df
    /\ all_resume_from \in {0, 1}
    /\ all_idx = all_resume_from
    /\ all_processed = 0
    /\ all_saved_at = 0
    /\ all_pc \in {"guess", "loop"}
    /\ all_runs = 1
    /\ all_last = [pos |-> 0, urls |-> [k \in AllUrlKeys |-> NaN]]
    /\ all_guessed = [main |-> FALSE,
                      cells |-> {<<i, k>> \in (1..AllTotal) \X AllUrlKeys :
                                    /\ all_df[i]["lookup_status"] = "auto_generated"
                                    /\ ~isna(all_df[i][k])}]

\* enrich_dj_producers_social.main over the whole workbook; the file it
\* writes is the workbook enrich_file loads.
AllGuessMain ==
    /\ all_pc = "guess"
    /\ all_df' = [i \in 1..Len(all_df) |-> Guess_row(all_df[i])]
    /\ all_file' = all_df'
    /\ all_guessed' = [main |-> TRUE,
                       cells |-> all_guessed.cells \cup
                          {<<i, k>> \in (1..Len(all_df)) \X AllUrlKeys :
                              all_df'[i][k] /= all_df[i][k]}]
    /\ all_pc' = "loop"
    /\ UNCHANGED <<all_idx, all_processed, all_saved_at, all_resume_from, all_runs,
                   all_last>>
    /\ UNCHANGED othersAll

\* One iteration of the for loop of enrich_file.
AllProcessRow ==
    /\ all_pc = "loop"
    /\ all_idx < Len(all_df)
    /\ all_idx' = all_idx + 1
    /\ LET row == all_df[all_idx + 1] IN
       IF Contains(All_current_status(row), "musicbrainz")
       THEN UNCHANGED <<all_df, all_processed, all_file, all_saved_at, all_last,
                        all_guessed>>
       ELSE /\ all_processed' = all_processed + 1
            /\ \E artist \in {"none", "match"}, rels \in AllRelAnswers :
                 LET urls == All_get_artist_urls(rels) IN
                 IF artist = "none"
                 THEN UNCHANGED <<all_df, all_file, all_saved_at, all_last, all_guessed>>
                 ELSE IF \A k \in AllUrlKeys : isna(urls[k])
                 THEN /\ all_df' = [all_df EXCEPT ![all_idx + 1]["musicbrainz_id"] = "mbid1"]
                      /\ UNCHANGED <<all_file, all_saved_at, all_last, all_guessed>>
                 ELSE LET df2 == [all_df EXCEPT ![all_idx + 1] =
                                                  All_update(row, urls, "mbid1")]
                          save == (all_processed + 1) % All_SAVE_INTERVAL = 0
                      IN  /\ all_df' = df2
                          /\ all_file' = IF save THEN df2 ELSE all_file
                          /\ all_saved_at' = IF save THEN all_processed + 1
                                             ELSE all_saved_at
                          /\ all_last' = [pos |-> all_idx + 1, urls |-> urls]
                          /\ all_guessed' = [all_guessed EXCEPT !.cells = @ \
                                {<<all_idx + 1, k>> : k \in
                                    All_updated_fields(row, urls, All_current_status(row))}]
    /\ UNCHANGED <<all_pc, all_resume_from, all_runs>>
    /\ UNCHANGED othersAll

\* The final save of enrich_file.
AllFinalSave ==
    /\ all_pc = "loop"
    /\ all_idx >= Len(all_df)
    /\ all_file' = all_df
    /\ all_pc' = "done"
    /\ UNCHANGED <<all_df, all_idx, all_processed, all_saved_at, all_resume_from,
                   all_runs, all_last, all_guessed>>
    /\ UNCHANGED othersAll

\* enrich_file is run again over the file it wrote.
AllRunAgain ==
    /\ all_pc = "done"
    /\ all_runs < AllMaxRuns
    /\ all_runs' = all_runs + 1
    /\ all_df' = all_file
    /\ \E r \in {0, 1} : all_resume_from' = r /\ all_idx' = r
    /\ all_processed' = 0
    /\ all_saved_at' = 0
    /\ all_pc' = "loop"
    /\ UNCHANGED <<all_file, all_last, all_guessed>>
    /\ UNCHANGED othersAll

InitAll == AllInit /\ IdleRem /\ IdleMis /\ IdleChunk /\ IdleMB /\ IdleSLP /\ IdleSch /\ IdleSel /\ IdleTok /\ IdleSt /\ IdlePar /\ IdleExt /\ IdleFill /\ IdleGs /\ IdleMr
NextAll == AllGuessMain \/ AllProcessRow \/ AllFinalSave \/ AllRunAgain
SpecAll == InitAll /\ [][NextAll]_vars

\* the platform fields of the workbook
AllPlatformFields == AllUrlKeys

C11_GuessedNeverConflated ==
    (all_pc = "done" /\ all_guessed.main) =>
        \A cell \in all_guessed.cells :
            /\ all_df[cell[1]]["lookup_status"] = "auto_generated"
            /\ all_file[cell[1]]["lookup_status"] = "auto_generated"

(***************************************************************************)
(* social_links_pipeline.py                                                *)
(*                                                                         *)
(* The main thread loads the checkpoint, submits one task per remaining    *)
(* artist to a pool of max_workers threads, collects the futures as they   *)
(* complete and writes the checkpoint and the 'Social Links' sheet.  Every *)
(* worker runs process_artist; the steps of a worker are the points where  *)
(* it touches the shared mb_id_cache or its file.  Artists are numbered;   *)
(* the answer of MusicBrainz for an artist is fixed by slp_world.          *)
(***************************************************************************)
SLP_max_workers == 3
SLP_save_interval == 2
SLPArtists == 3
SLPMaxRuns == 2

SLPWorkers == 1..SLP_max_workers

\* df_artists[artist_col].dropna().unique()
SLPNames == [a \in 1..SLPArtists |-> a]

\* the answers of the artist search: a match with score >= 90, or no
\* usable match (no artist, a low score, or a failed request)
SLPSearchAnswers == {"match", "no_match"}

\* the return value None of get_all_social_links
SLP_None == [found |-> FALSE]

\* get_all_social_links after the cache file is written: the lookup by id
\* and the construction of urls.  On a cache hit the name data is unbound
\* at the read of the country, and the bare except returns None.
SLP_lookup(cache_hit) ==
    IF cache_hit THEN SLP_None
    ELSE [found |-> TRUE, artist_country |-> "country", urls |-> "urls"]

\* process_artist: the row made of the artist and the links
process_artist(artist, links) ==
    IF links.found
    THEN [Artist |-> artist, artist_country |-> links.artist_country, urls |-> links.urls]
    ELSE [Artist |-> artist, artist_country |-> NaN, urls |-> NaN]

\* get_all_social_links run on its own, with no other thread: what the
\* cache and the answers of the provider alone determine
SLP_get_all_social_links(artist, cache, world) ==
    IF artist \in cache THEN SLP_lookup(TRUE)
    ELSE IF world[artist] = "no_match" THEN SLP_None
    ELSE SLP_lookup(FALSE)

\* pd.DataFrame(results, columns=social_cols): the key artist_country is
\* not one of social_cols and is dropped
SLP_to_frame(results) ==
    [i \in 1..Len(results) |->
        [Artist |-> results[i].Artist, artist_country |-> NaN, urls |-> results[i].urls]]

RECURSIVE SLP_not_processed(_, _)
\* [a for a in artists if str(a) not in processed]
SLP_not_processed(names, processed) ==
    IF names = <<>> THEN <<>>
    ELSE IF Head(names) \in processed THEN SLP_not_processed(Tail(names), processed)
    ELSE <<Head(names)>> \o SLP_not_processed(Tail(names), processed)

\* a worker: where it is in process_artist, its artist, whether its local
\* name data is bound, the mb_id_cache its json.dump started from, and
\* whether another thread had the cache file open during its dump
SLPIdleWorker ==
    [pc |-> "idle", artist |-> 0, data |-> FALSE, snapshot |-> {}, overlapped |-> FALSE]

\* the checkpoint an earlier, interrupted run left at its periodic save
SLPPriorCheckpoint(world) ==
    SLP_to_frame([i \in 1..SLP_save_interval |->
        process_artist(SLP_save_interval + 1 - i,
                       SLP_get_all_social_links(SLP_save_interval + 1 - i, {}, world))])

\* the load of a file: checkpoint, processed, results, artists
SLPLoad(checkpoint) ==
    LET rows == IF checkpoint.exists THEN checkpoint.rows ELSE <<>>
        processed == {rows[i].Artist : i \in 1..Len(rows)}
        artists == SLP_not_processed(SLPNames, processed)
    IN  /\ slp_loaded' = rows
        /\ slp_results' = rows
        /\ slp_artists' = artists
        /\ slp_queue' = artists
        /\ slp_worker' = [w \in SLPWorkers |-> SLPIdleWorker]
        /\ slp_completed' = {}
        /\ slp_idx' = 0
        /\ slp_pc' = "pool"

SLPInit ==
    /\ slp_world \in [1..SLPArtists -> SLPSearchAnswers]
    /\ slp_cache \in {{}, {1}}
    /\ slp_cache_loaded = slp_cache
    /\ slp_cache_file = [content |-> slp_cache, corrupt |-> FALSE]
    /\ slp_checkpoint \in {[exists |-> FALSE, rows |-> <<>>],
                           [exists |-> TRUE, rows |-> SLPPriorCheckpoint(slp_world)]}
    /\ slp_sheet = [exists |-> FALSE, rows |-> <<>>]
    /\ LET rows == IF slp_checkpoint.exists THEN slp_checkpoint.rows ELSE <<>>
           artists == SLP_not_processed(SLPNames, {rows[i].Artist : i \in 1..Len(rows)})
       IN  /\ slp_loaded = rows
           /\ slp_results = rows
           /\ slp_artists = artists
           /\ slp_queue = artists
    /\ slp_worker = [w \in SLPWorkers |-> SLPIdleWorker]
    /\ slp_completed = {}
    /\ slp_idx = 0
    /\ slp_pc = "pool"
    /\ slp_runs = 1

\* the future of worker w completes with the row of its artist
SLPReturn(w, links) ==
    /\ slp_completed' = slp_completed \cup {process_artist(slp_worker[w].artist, links)}
    /\ slp_worker' = [slp_worker EXCEPT ![w] = SLPIdleWorker]

\* A free worker takes the next task; process_artist sleeps and
\* get_all_social_links looks the artist up in mb_id_cache.
SLPTake(w) ==
    /\ slp_pc = "pool"
    /\ slp_worker[w].pc = "idle"
    /\ slp_queue /= <<>>
    /\ slp_queue' = Tail(slp_queue)
    /\ slp_worker' = [slp_worker EXCEPT ![w] =
           [pc |-> IF Head(slp_queue) \in slp_cache THEN "lookup" ELSE "search",
            artist |-> Head(slp_queue), data |-> FALSE, snapshot |-> {},
            overlapped |-> FALSE]]
    /\ UNCHANGED <<slp_world, slp_cache, slp_cache_loaded, slp_cache_file, slp_checkpoint,
                   slp_sheet, slp_loaded, slp_artists, slp_completed, slp_results,
                   slp_idx, slp_pc, slp_runs>>
    /\ UNCHANGED othersSLP

\* The search request of a cache miss answers: without a match the call
\* returns None, with a match the id is inserted into mb_id_cache.
SLPSearch(w) ==
    /\ slp_worker[w].pc = "search"
    /\ IF slp_world[slp_worker[w].artist] = "no_match"
       THEN /\ SLPReturn(w, SLP_None)
            /\ UNCHANGED slp_cache
       ELSE /\ slp_cache' = slp_cache \cup {slp_worker[w].artist}
            /\ slp_worker' = [slp_worker EXCEPT ![w].pc = "open", ![w].data = TRUE]
            /\ UNCHANGED slp_completed
    /\ UNCHANGED <<slp_world, slp_cache_loaded, slp_cache_file, slp_checkpoint, slp_sheet,
                   slp_loaded, slp_artists, slp_queue, slp_results, slp_idx, slp_pc,
                   slp_runs>>
    /\ UNCHANGED othersSLP

\* open(MB_CACHE_FILE, "w") truncates the file and json.dump starts to
\* iterate over mb_id_cache.
SLPOpen(w) ==
    /\ slp_worker[w].pc = "open"
    /\ LET writers == {v \in SLPWorkers : slp_worker[v].pc = "dump"}
       IN  slp_worker' = [v \in SLPWorkers |->
               IF v = w THEN [slp_worker[w] EXCEPT !.pc = "dump", !.snapshot = slp_cache,
                                                   !.overlapped = writers /= {}]
               ELSE IF v \in writers THEN [slp_worker[v] EXCEPT !.overlapped = TRUE]
               ELSE slp_worker[v]]
    /\ slp_cache_file' = [content |-> {}, corrupt |-> TRUE]
    /\ UNCHANGED <<slp_world, slp_cache, slp_cache_loaded, slp_checkpoint, slp_sheet,
                   slp_loaded, slp_artists, slp_queue, slp_completed, slp_results,
                   slp_idx, slp_pc, slp_runs>>
    /\ UNCHANGED othersSLP

\* json.dump ends and the file is closed.  If mb_id_cache grew during the
\* iteration the dump raises RuntimeError, the file keeps the part written
\* and the bare except returns None.  If another thread had the file open
\* during the dump, both wrote from offset 0 and the bytes of the file are
\* any mix of the two writes.
SLPDump(w) ==
    /\ slp_worker[w].pc = "dump"
    /\ IF slp_worker[w].snapshot /= slp_cache
       THEN /\ SLPReturn(w, SLP_None)
            /\ \/ slp_cache_file' = [content |-> {}, corrupt |-> TRUE]
               \/ slp_worker[w].overlapped /\ UNCHANGED slp_cache_file
       ELSE /\ slp_worker' = [slp_worker EXCEPT ![w].pc = "lookup"]
            /\ UNCHANGED slp_completed
            /\ \E corrupt \in IF slp_worker[w].overlapped THEN BOOLEAN ELSE {FALSE} :
                  slp_cache_file' = [content |-> IF corrupt THEN {} ELSE slp_worker[w].snapshot,
                                     corrupt |-> corrupt]
    /\ UNCHANGED <<slp_world, slp_cache, slp_cache_loaded, slp_checkpoint, slp_sheet,
                   slp_loaded, slp_artists, slp_queue, slp_results, slp_idx, slp_pc,
                   slp_runs>>
    /\ UNCHANGED othersSLP

\* The lookup by id answers and get_all_social_links returns.
SLPLookup(w) ==
    /\ slp_worker[w].pc = "lookup"
    /\ SLPReturn(w, SLP_lookup(~slp_worker[w].data))
    /\ UNCHANGED <<slp_world, slp_cache, slp_cache_loaded, slp_cache_file, slp_checkpoint,
                   slp_sheet, slp_loaded, slp_artists, slp_queue, slp_results, slp_idx,
                   slp_pc, slp_runs>>
    /\ UNCHANGED othersSLP

\* One iteration of the as_completed loop of the main thread.
SLPCollect ==
    /\ slp_pc = "pool"
    /\ \E row \in slp_completed :
          /\ slp_completed' = slp_completed \ {row}
          /\ slp_results' = Append(slp_results, row)
          /\ slp_idx' = slp_idx + 1
          /\ slp_checkpoint' = IF (slp_idx + 1) % SLP_save_interval = 0
                               THEN [exists |-> TRUE,
                                     rows |-> SLP_to_frame(Append(slp_results, row))]
                               ELSE slp_checkpoint
    /\ UNCHANGED <<slp_world, slp_cache, slp_cache_loaded, slp_cache_file, slp_sheet,
                   slp_loaded, slp_artists, slp_queue, slp_worker, slp_pc, slp_runs>>
    /\ UNCHANGED othersSLP

\* The pool is drained: the final rows are written to the checkpoint and to
\* the 'Social Links' sheet.
SLPFinish ==
    /\ slp_pc = "pool"
    /\ slp_idx = Len(slp_artists)
    /\ slp_checkpoint' = [exists |-> TRUE, rows |-> SLP_to_frame(slp_results)]
    /\ slp_sheet' = [exists |-> TRUE, rows |-> SLP_to_frame(slp_results)]
    /\ slp_pc' = "done"
    /\ UNCHANGED <<slp_world, slp_cache, slp_cache_loaded, slp_cache_file, slp_loaded,
                   slp_artists, slp_queue, slp_worker, slp_completed, slp_results,
                   slp_idx, slp_runs>>
    /\ UNCHANGED othersSLP

\* The script is run again: mb_id_cache is loaded from its file (json.load
\* raises on a file that is not JSON) and the file is loaded as before.
SLPRunAgain ==
    /\ slp_pc = "done"
    /\ slp_runs < SLPMaxRuns
    /\ slp_runs' = slp_runs + 1
    /\ IF slp_cache_file.corrupt
       THEN /\ slp_pc' = "crashed"
            /\ UNCHANGED <<slp_cache, slp_cache_loaded, slp_loaded, slp_artists, slp_queue,
                           slp_worker, slp_completed, slp_results, slp_idx>>
       ELSE /\ slp_cache' = slp_cache_file.content
            /\ slp_cache_loaded' = slp_cache_file.content
            /\ SLPLoad(slp_checkpoint)
    /\ UNCHANGED <<slp_world, slp_cache_file, slp_checkpoint, slp_sheet>>
    /\ UNCHANGED othersSLP

InitSLP == SLPInit /\ IdleRem /\ IdleMis /\ IdleChunk /\ IdleMB /\ IdleAll /\ IdleSch /\ IdleSel /\ IdleTok /\ IdleSt /\ IdlePar /\ IdleExt /\ IdleFill /\ IdleGs /\ IdleMr
NextSLP ==
    \/ \E w \in SLPWorkers : SLPTake(w) \/ SLPSearch(w) \/ SLPOpen(w) \/ SLPDump(w)
                                \/ SLPLookup(w)
    \/ SLPCollect
    \/ SLPFinish
    \/ SLPRunAgain
SpecSLP == InitSLP /\ [][NextSLP]_vars

\* the workers that have the cache file open and serialize mb_id_cache
SLPWriters == {w \in SLPWorkers : slp_worker[w].pc = "dump"}

\* C7 as stated: in no reachable state do two threads write the cache
\* file at the same time, and no thread serializes mb_id_cache while
\* another thread has inserted into it since the serialization began; the
\* checkpoint file is written by the main thread only.
C7_CacheWritesSerialized ==
    slp_pc = "pool" =>
        /\ Cardinality(SLPWriters) <= 1
        /\ \A w \in SLPWriters : slp_worker[w].snapshot = slp_cache

\* the rows appended to the loaded rows by this run
SLPNewRows == SubSeq(slp_results, Len(slp_loaded) + 1, Len(slp_results))

\* Once the pool is drained the results are the loaded rows followed by
\* exactly one row for each artist submitted.
SLPOneRowPerArtist ==
    slp_pc = "done" =>
        /\ Len(slp_results) = Len(slp_loaded) + Len(slp_artists)
        /\ SubSeq(slp_results, 1, Len(slp_loaded)) = slp_loaded
        /\ \A k \in 1..Len(slp_artists) :
              Cardinality({i \in 1..Len(SLPNewRows) :
                              SLPNewRows[i].Artist = slp_artists[k]}) = 1

\* C8 as stated: for every interleaving and completion order, once the
\* pool is drained the results are the loaded rows plus exactly one row for
\* each artist submitted, and only the order of the rows depends on the
\* interleaving: the row of an artist is the row that the cache loaded at
\* the start and the answers of the provider determine.
C8_OnlyOrderDependsOnInterleaving ==
    slp_pc = "done" =>
        /\ Len(slp_results) = Len(slp_loaded) + Len(slp_artists)
        /\ SubSeq(slp_results, 1, Len(slp_loaded)) = slp_loaded
        /\ \A k \in 1..Len(slp_artists) :
              {i \in 1..Len(SLPNewRows) : SLPNewRows[i].Artist = slp_artists[k]}
              = {i \in 1..Len(SLPNewRows) :
                    SLPNewRows[i] = process_artist(slp_artists[k],
                        SLP_get_all_social_links(slp_artists[k], slp_cache_loaded,
                                                 slp_world))}
        /\ \A k \in 1..Len(slp_artists) :
              Cardinality({i \in 1..Len(SLPNewRows) :
                              SLPNewRows[i].Artist = slp_artists[k]}) = 1

\* C9 as stated: when a file has completed normally the full final result
\* set is in the 'Social Links' sheet and the checkpoint of the file no
\* longer exists.
C9_CompletionDeletesCheckpoint ==
    slp_pc = "done" =>
        /\ slp_sheet.exists
        /\ slp_sheet.rows = SLP_to_frame(slp_results)
        /\ ~slp_checkpoint.exists

\* C25 as stated: for an artist whose id is in mb_id_cache when the file is
\* loaded, get_all_social_links returns the links it returns on a cache
\* miss with the same answers of the provider, so the row of the artist is
\* the row of a run with an empty cache.
C25_CacheHitSameLinks ==
    slp_pc \in {"pool", "done"} =>
        \A i \in 1..Len(SLPNewRows) :
            LET artist == SLPNewRows[i].Artist IN
            (artist \in slp_cache_loaded /\ slp_world[artist] = "match") =>
                SLPNewRows[i] = process_artist(artist,
                                    SLP_get_all_social_links(artist, {}, slp_world))

\* What a run started after a completed run does once it has loaded the
\* checkpoint: every artist of the input sheet is among the rows loaded, no
\* artist is submitted, no worker sends a request, mb_id_cache stays as
\* loaded, and the rows it writes to the sheet are the rows of the sheet.
SLPRerunLoadedIsNoOp ==
    (slp_runs > 1 /\ slp_pc /= "crashed") =>
        /\ \A k \in 1..Len(SLPNames) :
              \E i \in 1..Len(slp_loaded) : slp_loaded[i].Artist = SLPNames[k]
        /\ slp_artists = <<>>
        /\ \A w \in SLPWorkers : slp_worker[w].pc = "idle"
        /\ slp_cache = slp_cache_loaded
        /\ SLP_to_frame(slp_results) = slp_sheet.rows

\* C30 as stated: a run started after a run that completed normally loads
\* the checkpoint, finds every artist of the input sheet in it, submits no
\* artist to the pool, sends no MusicBrainz request, and the rows it writes
\* to the 'Social Links' sheet equal those of the first run.
C30_RerunIsNoOp ==
    slp_runs > 1 =>
        /\ slp_pc \in {"pool", "done"}
        /\ SLPRerunLoadedIsNoOp

(***************************************************************************)
(* soundcharts_enrichment.py                                               *)
(*                                                                         *)
(* What the Soundcharts API answers to one request is a status or, for a   *)
(* 200, the kind of its body.  The events of a call are its requests and   *)
(* its sleeps, in order.                                                   *)
(***************************************************************************)
Sch_SAVE_INTERVAL == 2
\* rows of the input CSV
SchTotal == 2

RECURSIVE Sch_make_request(_)
\* SoundchartsClient._make_request: 404 gives None, 429 sleeps 60 s and
\* calls itself, any other HTTP error and any network error are raised.
Sch_make_request(answers) ==
    LET a == Head(answers) IN
    CASE a = "429" ->
            LET again == Sch_make_request(Tail(answers)) IN
            [again EXCEPT !.events = <<"request", "sleep">> \o @]
      [] a = "404" -> [kind |-> "none", body |-> NaN, events |-> <<"request">>]
      [] a \in {"500", "network_error"} ->
            [kind |-> "raise", body |-> a, events |-> <<"request">>]
      [] OTHER -> [kind |-> "json", body |-> a, events |-> <<"request">>]

\* the answers to a request: at most one 429, then an answer that ends it
SchAnswerSeqs(terminal) == { <<t>> : t \in terminal } \cup { <<"429", t>> : t \in terminal }

SchDirectAnswers == SchAnswerSeqs({"uuid", "no_uuid", "404", "500", "network_error"})
SchNameAnswers == SchAnswerSeqs({"items", "empty", "404", "500", "network_error"})
SchIdentifierAnswers == { <<"identifiers">>, <<"500">> }

\* SoundchartsClient.search_artist: direct is the terminal answer of the
\* by-platform lookup ("none" when it is not requested), name_searched
\* tells whether the name search was requested.
Sch_search_artist(artist_name, spotify_id, direct, name) ==
    LET none == [kind |-> "none", body |-> NaN, events |-> <<>>]
        d == IF ~isna(spotify_id) THEN Sch_make_request(direct) ELSE none
        n == Sch_make_request(name)
        asked == IF ~isna(spotify_id) THEN direct[Len(direct)] ELSE "none"
    IN  IF d.kind = "raise"
        THEN [kind |-> "raise", error |-> d.body, events |-> d.events, direct |-> asked,
              name_searched |-> FALSE]
        ELSE IF d.kind = "json" /\ d.body = "uuid"
        THEN [kind |-> "uuid", error |-> NaN, events |-> d.events, direct |-> asked,
              name_searched |-> FALSE]
        ELSE [kind |-> IF n.kind = "raise" THEN "raise"
                       ELSE IF n.kind = "json" /\ n.body = "items" THEN "uuid"
                       ELSE "none",
              error |-> IF n.kind = "raise" THEN n.body ELSE NaN,
              events |-> d.events \o n.events, direct |-> asked, name_searched |-> TRUE]

\* enrich_artist: the result row, the events of the call and what
\* search_artist did.
Sch_enrich_artist(row, direct, name, identifiers) ==
    LET blank == [c \in Columns |-> NaN]
        result == [blank EXCEPT !["artist_name"] = row.artist_name,
                                !["spotify_id"] = row.spotify_id,
                                !["lookup_status"] = "pending"]
        searched == isna(row.soundcharts_uuid)
        s == IF searched
             THEN Sch_search_artist(row.artist_name, row.spotify_id, direct, name)
             ELSE [kind |-> "uuid", error |-> NaN, events |-> <<>>, direct |-> "none",
                   name_searched |-> FALSE]
        uuid == IF searched THEN "uuid_s" ELSE row.soundcharts_uuid
        i == Sch_make_request(identifiers)
    IN  IF s.kind = "raise"
        THEN [row |-> [result EXCEPT !["lookup_status"] = "error",
                                     !["error_message"] = s.error],
              events |-> s.events, search |-> s]
        ELSE IF s.kind = "none"
        THEN [row |-> [result EXCEPT !["lookup_status"] = "not_found",
                                     !["error_message"] = "Artist not found in Soundcharts"],
              events |-> s.events, search |-> s]
        ELSE IF i.kind = "raise"
        THEN [row |-> [result EXCEPT !["soundcharts_uuid"] = uuid,
                                     !["lookup_status"] = "error",
                                     !["error_message"] = i.body],
              events |-> s.events \o <<"sleep">> \o i.events, search |-> s]
        ELSE [row |-> [result EXCEPT !["soundcharts_uuid"] = uuid,
                                     !["instagram_url"] = "ig_s",
                                     !["instagram_handle"] = "igh_s",
                                     !["lookup_status"] = "success"],
              events |-> s.events \o <<"sleep">> \o i.events \o <<"sleep">>,
              search |-> s]

\* the rows load_input_csv returns: a name alone, a name with a Spotify
\* id, a name with a Soundcharts uuid
SchRowTemplates ==
    { [artist_name |-> "drake", spotify_id |-> NaN, soundcharts_uuid |-> NaN],
      [artist_name |-> "dj khaled", spotify_id |-> "sp0", soundcharts_uuid |-> NaN],
      [artist_name |-> "lil x", spotify_id |-> "sp1", soundcharts_uuid |-> "uuid0"] }

\* whether two requests follow each other with no sleep between them, in
\* the events of a call or between the last event before and the first
Sch_unpaced(last, events) ==
    LET all == <<last>> \o events IN
    \E j \in 1..(Len(all) - 1) : all[j] = "request" /\ all[j + 1] = "request"

SchInit ==
    /\ sch_df \in [1..SchTotal -> SchRowTemplates]
    /\ sch_idx = 0
    /\ sch_results = <<>>
    /\ sch_file = [exists |-> FALSE, rows |-> <<>>]
    /\ sch_pc = "loop"
    /\ sch_last = [pos |-> 0, direct |-> "none", first |-> "none",
                   name_searched |-> FALSE, status |-> "pending"]
    /\ sch_trace = [last |-> "none", unpaced |-> FALSE]

\* One iteration of the loop of run_enrichment_pipeline.
SchProcessRow ==
    /\ sch_pc = "loop"
    /\ sch_idx < Len(sch_df)
    /\ \E direct \in SchDirectAnswers, name \in SchNameAnswers,
          identifiers \in SchIdentifierAnswers :
         LET row == sch_df[sch_idx + 1]
             res == Sch_enrich_artist(row, direct, name, identifiers)
             results2 == Append(sch_results, res.row)
         IN  /\ sch_results' = results2
             /\ sch_file' = IF (sch_idx + 1) % Sch_SAVE_INTERVAL = 0
                            THEN [exists |-> TRUE, rows |-> results2] ELSE sch_file
             /\ sch_last' = [pos |-> sch_idx + 1, direct |-> res.search.direct,
                             first |-> IF res.search.direct /= "none" THEN "by-platform"
                                       ELSE IF res.search.name_searched THEN "search"
                                       ELSE "none",
                             name_searched |-> res.search.name_searched,
                             status |-> res.row["lookup_status"]]
             /\ sch_trace' =
                   [last |-> IF res.events = <<>> THEN sch_trace.last
                             ELSE res.events[Len(res.events)],
                    unpaced |-> sch_trace.unpaced \/ Sch_unpaced(sch_trace.last, res.events)]
    /\ sch_idx' = sch_idx + 1
    /\ UNCHANGED <<sch_df, sch_pc>>
    /\ UNCHANGED othersSch

\* The final save of run_enrichment_pipeline.
SchFinalSave ==
    /\ sch_pc = "loop"
    /\ sch_idx = Len(sch_df)
    /\ sch_file' = [exists |-> TRUE, rows |-> sch_results]
    /\ sch_pc' = "done"
    /\ UNCHANGED <<sch_df, sch_idx, sch_results, sch_last, sch_trace>>
    /\ UNCHANGED othersSch

InitSch == SchInit /\ IdleRem /\ IdleMis /\ IdleChunk /\ IdleMB /\ IdleAll /\ IdleSLP /\ IdleSel /\ IdleTok /\ IdleSt /\ IdlePar /\ IdleExt /\ IdleFill /\ IdleGs /\ IdleMr
NextSch == SchProcessRow \/ SchFinalSave
SpecSch == InitSch /\ [][NextSch]_vars

\* C15 as stated: when search_artist is called with a spotify_id the direct
\* by-platform lookup is the first request, and the name search is
\* requested whenever the direct lookup did not yield a uuid: on a 404, on
\* an answer without uuid, and on any other HTTP or network error.
C15_NameSearchWheneverDirectFails ==
    (sch_pc /= Idle /\ sch_last.pos > 0 /\ sch_last.direct /= "none") =>
        /\ sch_last.first = "by-platform"
        /\ sch_last.direct /= "uuid" => sch_last.name_searched

\* C20 as stated: between any two consecutive requests sent to the
\* Soundcharts API during a run there is a sleep, whatever the outcome of
\* the earlier request.
C20_SleepBetweenRequests ==
    sch_pc /= Idle => ~sch_trace.unpaced

(***************************************************************************)
(* Name-search selection of the three clients                              *)
(***************************************************************************)
\* candidates in one answer
MaxItems == 3
SelNames == {"Drake", "drake", "DRAKE", "Drakeo"}
SelQueries == {"drake", "Drake", "Future"}

RECURSIVE Sel_lower(_)
\* str.lower on ASCII text
Sel_lower(s) ==
    LET upper == "ABCDEFGHIJKLMNOPQRSTUVWXYZ"
        lower == "abcdefghijklmnopqrstuvwxyz"
        ch == Char(s, 1)
    IN  IF s = "" THEN ""
        ELSE (IF Contains(upper, ch)
              THEN Char(lower, CHOOSE j \in 1..Len(upper) : Char(upper, j) = ch)
              ELSE ch) \o Sel_lower(Tail(s))

Sel_matches_case_sensitive(item_name, name) == item_name = name

\* item.get("name", "").lower() == name.lower()
Sel_matches(item_name, name) == Sel_lower(item_name) = Sel_lower(name)

RECURSIVE Sel_scan(_, _, _)
\* for item in items: the position of the first item the test accepts, 0
\* when the loop ends without one
Sel_scan(items, name, j) ==
    IF j > Len(items) THEN 0
    ELSE IF Sel_matches(items[j].name, name) THEN j
    ELSE Sel_scan(items, name, j + 1)

Sel_None == [name |-> "", id |-> 0]

\* SpotifyClient.search_artist, from the items of the answer on
Spotify_select(items, name) ==
    IF items = <<>> THEN Sel_None
    ELSE LET j == Sel_scan(items, name, 1) IN
         IF j > 0 THEN items[j] ELSE items[1]

\* SoundchartsClient.search_artist, from the items of the answer on: the
\* uuid of the chosen item, 0 for None
Soundcharts_select(items, artist_name) ==
    IF items = <<>> THEN 0
    ELSE LET j == Sel_scan(items, artist_name, 1) IN
         IF j > 0 THEN items[j].id ELSE items[1].id

\* MusicBrainzClient.search_artist, from the artists of the answer on
MusicBrainz_select(artists, name) ==
    IF artists = <<>> THEN Sel_None
    ELSE LET j == Sel_scan(artists, name, 1)
             best_match == IF j > 0 THEN artists[j] ELSE Sel_None
         IN  IF best_match = Sel_None THEN artists[1] ELSE best_match

SelClients == {"spotify", "soundcharts", "musicbrainz"}

SelInit ==
    /\ \E n \in 0..MaxItems : \E names \in [1..n -> SelNames] :
          sel_items = [j \in 1..n |-> [name |-> names[j], id |-> j]]
    /\ sel_name \in SelQueries
    /\ sel_out = [spotify |-> Sel_None, soundcharts |-> 0, musicbrainz |-> Sel_None]
    /\ sel_done = {}

SelSpotify ==
    /\ sel_name /= Idle /\ "spotify" \notin sel_done
    /\ sel_out' = [sel_out EXCEPT !.spotify = Spotify_select(sel_items, sel_name)]
    /\ sel_done' = sel_done \cup {"spotify"}
    /\ UNCHANGED <<sel_items, sel_name>>
    /\ UNCHANGED othersSel

SelSoundcharts ==
    /\ sel_name /= Idle /\ "soundcharts" \notin sel_done
    /\ sel_out' = [sel_out EXCEPT !.soundcharts = Soundcharts_select(sel_items, sel_name)]
    /\ sel_done' = sel_done \cup {"soundcharts"}
    /\ UNCHANGED <<sel_items, sel_name>>
    /\ UNCHANGED othersSel

SelMusicBrainz ==
    /\ sel_name /= Idle /\ "musicbrainz" \notin sel_done
    /\ sel_out' = [sel_out EXCEPT !.musicbrainz = MusicBrainz_select(sel_items, sel_name)]
    /\ sel_done' = sel_done \cup {"musicbrainz"}
    /\ UNCHANGED <<sel_items, sel_name>>
    /\ UNCHANGED othersSel

InitSelect == SelInit /\ IdleRem /\ IdleMis /\ IdleChunk /\ IdleMB /\ IdleAll /\ IdleSLP /\ IdleSch /\ IdleTok /\ IdleSt /\ IdlePar /\ IdleExt /\ IdleFill /\ IdleGs /\ IdleMr
NextSelect == SelSpotify \/ SelSoundcharts \/ SelMusicBrainz
SpecSelect == InitSelect /\ [][NextSelect]_vars

\* the candidate the selection policy names: the first one whose name
\* equals the query when case is ignored, else the first one
C16_expected ==
    LET same(j) == Sel_lower(sel_items[j].name) = Sel_lower(sel_name)
        exact == { j \in 1..Len(sel_items) : same(j) }
    IN  IF sel_items = <<>> THEN Sel_None
        ELSE IF exact /= {}
        THEN sel_items[CHOOSE j \in exact : \A k \in exact : j <= k]
        ELSE sel_items[1]

\* C16: each client's name search returns, for a non-empty candidate list,
\* the first candidate whose name equals the query case-insensitively, the
\* first candidate when none matches, and none for an empty list.
C16_SelectionPolicy ==
    sel_name /= Idle =>
        /\ "spotify" \in sel_done => sel_out.spotify = C16_expected
        /\ "soundcharts" \in sel_done => sel_out.soundcharts = C16_expected.id
        /\ "musicbrainz" \in sel_done => sel_out.musicbrainz = C16_expected

\* all three clients chose a later candidate that differs from the query
\* in case only, over a first candidate that does not match
C16_Witness ==
    /\ sel_name /= Idle
    /\ sel_done = SelClients
    /\ Len(sel_items) >= 2
    /\ sel_out.spotify.id > 1
    /\ sel_out.spotify.name /= sel_name
    /\ sel_out.soundcharts = sel_out.spotify.id
    /\ sel_out.musicbrainz = sel_out.spotify

(***************************************************************************)
(* SpotifyClient token handling (enrich_remaining.py, dj_chunk_runner.py)  *)
(*                                                                         *)
(* Time is in seconds.  tok_st holds the clock, token_expires_at, and of   *)
(* the token in the session's Authorization header its expires_in and the  *)
(* time at which it expires at the provider.                               *)
(***************************************************************************)
Tok_REFRESH_MARGIN == 300
\* the clock stops advancing here
Tok_MaxTime == 1200
\* expires_in of the answers of the token endpoint; 3600 is Spotify's
TokExpiresIn == {200, 300, 400, 3600}
\* lengths of a sleep: Retry-After, or the time between two searches
TokSleeps == {100, 300}
\* 429 answers to one search
TokMaxRetry == 1

\* _refresh_token / _refresh at time st.now, the endpoint answering
\* expires_in
Tok_refresh_token(st, expires_in) ==
    [now |-> st.now, has_token |-> TRUE, expires_in |-> expires_in,
     token_expires_at |-> st.now + expires_in - Tok_REFRESH_MARGIN,
     expiry |-> st.now + expires_in]

Tok_ensure_token_never(st, expires_in) == st

\* _ensure_token
Tok_ensure_token(st, expires_in) ==
    IF st.now >= st.token_expires_at THEN Tok_refresh_token(st, expires_in) ELSE st

RECURSIVE Tok_search_artist(_, _, _)
\* search_artist / search: retry_afters are the Retry-After of the 429
\* answers before the answer that ends the call, grants the expires_in the
\* token endpoint would answer before each request.  The result is the
\* state after the call and the state at each request sent.
Tok_search_artist(st, retry_afters, grants) ==
    LET st1 == Tok_ensure_token(st, Head(grants)) IN
    IF retry_afters = <<>>
    THEN [st |-> st1, requests |-> <<st1>>]
    ELSE LET slept == [st1 EXCEPT !.now = @ + Head(retry_afters)]
             again == Tok_search_artist(slept, Tail(retry_afters), Tail(grants))
         IN  [st |-> again.st, requests |-> <<st1>> \o again.requests]

TokInit ==
    /\ tok_st = [now |-> 0, has_token |-> FALSE, expires_in |-> 0,
                 token_expires_at |-> 0, expiry |-> 0]
    /\ tok_pc = "new"
    /\ tok_last = [requests |-> <<>>]

\* SpotifyClient.__init__
TokConstruct ==
    /\ tok_pc = "new"
    /\ \E expires_in \in TokExpiresIn : tok_st' = Tok_refresh_token(tok_st, expires_in)
    /\ tok_pc' = "ready"
    /\ UNCHANGED tok_last
    /\ UNCHANGED othersTok

\* one call of search_artist
TokSearch ==
    /\ tok_pc = "ready"
    /\ \E n \in 0..TokMaxRetry :
       \E retry_afters \in [1..n -> TokSleeps], grants \in [1..(n + 1) -> TokExpiresIn] :
          LET res == Tok_search_artist(tok_st, retry_afters, grants) IN
          /\ res.st.now <= Tok_MaxTime
          /\ tok_st' = res.st
          /\ tok_last' = [requests |-> res.requests]
    /\ UNCHANGED tok_pc
    /\ UNCHANGED othersTok

\* time passing between two searches: the pacing sleep, the other providers
TokElapse ==
    /\ tok_pc = "ready"
    /\ \E s \in TokSleeps :
          /\ tok_st.now + s <= Tok_MaxTime
          /\ tok_st' = [tok_st EXCEPT !.now = @ + s]
    /\ UNCHANGED <<tok_pc, tok_last>>
    /\ UNCHANGED othersTok

InitToken == TokInit /\ IdleRem /\ IdleMis /\ IdleChunk /\ IdleMB /\ IdleAll /\ IdleSLP /\ IdleSch /\ IdleSel /\ IdleSt /\ IdlePar /\ IdleExt /\ IdleFill /\ IdleGs /\ IdleMr
NextToken == TokConstruct \/ TokSearch \/ TokElapse
SpecToken == InitToken /\ [][NextToken]_vars

TokRequests == { tok_last.requests[j] : j \in 1..Len(tok_last.requests) }

\* C17 as stated: a token is acquired before the first request, and when a
\* search request is sent the current time is earlier than
\* token_expires_at, for every expires_in.
C17_RequestBeforeTokenExpiresAt ==
    \A r \in TokRequests : r.has_token /\ r.now < r.token_expires_at

\* C17 amended: a token is acquired before the first request; when a search
\* request is sent the token in use has not expired (the current time is
\* earlier than its issue time plus its expires_in), and the current time
\* is earlier than token_expires_at when that token's expires_in exceeds
\* the 300 s margin.
C17_RequestBeforeTokenExpiry ==
    \A r \in TokRequests :
        /\ r.has_token
        /\ r.now < r.expiry
        /\ r.expires_in > Tok_REFRESH_MARGIN => r.now < r.token_expires_at

\* a search that was answered 429, slept past token_expires_at and sent its
\* retry with a token newer than the one of its first request
C17_Witness ==
    /\ Len(tok_last.requests) >= 2
    /\ tok_last.requests[1].expires_in > Tok_REFRESH_MARGIN
    /\ tok_last.requests[2].now >= tok_last.requests[1].token_expires_at
    /\ tok_last.requests[2].expiry > tok_last.requests[1].expiry

(***************************************************************************)
(* Startup: how each script finds the name column of its input table       *)
(***************************************************************************)
\* data rows of the input table
StRows == 2
\* columns of the header besides those a script needs for other purposes
StMaxColumns == 2
StColumnNames == {"artist_name", "Artist Name", " name ", "Genre", "Stage"}
StScripts == {"soundcharts_enrichment", "enrich_remaining", "social_links_pipeline"}

RECURSIVE St_replace_spaces(_)
\* str.replace(" ", "_")
St_replace_spaces(s) ==
    IF s = "" THEN ""
    ELSE (IF Char(s, 1) = " " THEN "_" ELSE Char(s, 1)) \o St_replace_spaces(Tail(s))

RECURSIVE St_strip(_)
\* str.strip
St_strip(s) ==
    IF s = "" THEN ""
    ELSE IF Char(s, 1) = " " THEN St_strip(Tail(s))
    ELSE IF Char(s, Len(s)) = " " THEN St_strip(SubSeq(s, 1, Len(s) - 1))
    ELSE s

\* the first element of a sequence that satisfies a test, NaN when none does
St_first(seq, Test(_)) ==
    IF \E j \in 1..Len(seq) : Test(seq[j])
    THEN seq[CHOOSE j \in 1..Len(seq) : Test(seq[j]) /\ \A k \in 1..(j - 1) : ~Test(seq[k])]
    ELSE NaN

\* load_input_csv: the header is normalised, the name column is the first
\* of artist_name, name, artist that it holds; "raise" for the ValueError
Sch_name_col(header) ==
    LET columns == [j \in 1..Len(header) |->
                       St_replace_spaces(St_strip(Sel_lower(header[j])))]
        held(col) == \E j \in 1..Len(columns) : columns[j] = col
        name_col == St_first(<<"artist_name", "name", "artist">>, held)
    IN  IF isna(name_col) THEN "raise" ELSE name_col

\* run_pipeline of enrich_remaining.py: the schema validation; the other
\* sixteen expected columns are taken as present
Rem_name_col(header) ==
    IF \E j \in 1..Len(header) : header[j] = "artist_name" THEN "artist_name" ELSE "raise"

\* social_links_pipeline.py: artist_col; columns[0] is evaluated before
\* next() is called and raises on a table without columns
SLP_artist_col(header) ==
    LET named(c) == Contains(Sel_lower(c), "artist") \/ Contains(Sel_lower(c), "name")
        found == St_first(header, named)
    IN  IF header = <<>> THEN "raise"
        ELSE IF isna(found) THEN header[1] ELSE found

St_name_col(script, header) ==
    CASE script = "soundcharts_enrichment" -> Sch_name_col(header)
      [] script = "enrich_remaining" -> Rem_name_col(header)
      [] OTHER -> SLP_artist_col(header)

\* the column a script would recognise as the name column, NaN when the
\* table has none for it
St_recognised(script, header) ==
    CASE script = "soundcharts_enrichment" -> Sch_name_col(header)
      [] script = "enrich_remaining" -> Rem_name_col(header)
      [] OTHER ->
           LET named(c) == Contains(Sel_lower(c), "artist") \/ Contains(Sel_lower(c), "name")
           IN  St_first(header, named)

StInit ==
    /\ st_script \in StScripts
    /\ \E n \in 0..StMaxColumns :
          st_header \in { h \in [1..n -> StColumnNames] :
                             \A j, k \in 1..n : j /= k => h[j] /= h[k] }
    /\ st_pc = "start"
    /\ st_out = [requests |-> 0, written |-> FALSE, processed |-> 0, col |-> NaN]

\* the run up to its loop: the table is read and the name column found,
\* or the run dies
StStart ==
    /\ st_pc = "start"
    /\ LET col == St_name_col(st_script, st_header) IN
       /\ st_pc' = IF col = "raise" THEN "fatal" ELSE "loop"
       /\ st_out' = [st_out EXCEPT !.col = col,
                        \* SpotifyClient.__init__ fetches a token
                        !.requests = IF col /= "raise" /\ st_script = "enrich_remaining"
                                     THEN 1 ELSE 0]
    /\ UNCHANGED <<st_script, st_header>>
    /\ UNCHANGED othersSt

\* one artist: at least one provider request
StProcessRow ==
    /\ st_pc = "loop"
    /\ st_out.processed < StRows
    /\ st_out' = [st_out EXCEPT !.processed = @ + 1, !.requests = @ + 1]
    /\ UNCHANGED <<st_script, st_header, st_pc>>
    /\ UNCHANGED othersSt

\* the save after the loop
StFinalSave ==
    /\ st_pc = "loop"
    /\ st_out.processed = StRows
    /\ st_out' = [st_out EXCEPT !.written = TRUE]
    /\ st_pc' = "done"
    /\ UNCHANGED <<st_script, st_header>>
    /\ UNCHANGED othersSt

InitStartup == StInit /\ IdleRem /\ IdleMis /\ IdleChunk /\ IdleMB /\ IdleAll /\ IdleSLP /\ IdleSch /\ IdleSel /\ IdleTok /\ IdlePar /\ IdleExt /\ IdleFill /\ IdleGs /\ IdleMr
NextStartup == StStart \/ StProcessRow \/ StFinalSave
SpecStartup == InitStartup /\ [][NextStartup]_vars

\* C19 as stated: on a table without a name column each of the three
\* scripts stops at startup: no provider request is sent, no output or
\* checkpoint file is written, no row is processed.
C19_NoNameColumnIsFatal ==
    (st_pc \notin {Idle, "start"} /\ St_recognised(st_script, st_header) \in {NaN, "raise"}) =>
        /\ st_pc = "fatal"
        /\ st_out.requests = 0 /\ ~st_out.written /\ st_out.processed = 0

(***************************************************************************)
(* extract_handle of the three MusicBrainz scripts                         *)
(***************************************************************************)
ExtBases == {"https://instagram.com", "https://www.tiktok.com"}
ExtHandles == {"drake", "@drake", "dj_x"}
ExtTrailing == {"", "/", "//"}
ExtQueries == {"", "?hl=en", "?next=/home/"}
\* the URLs a relation of MusicBrainz may hold, and the empty string
ExtUrls ==
    { b \o "/" \o h \o t \o q : b \in ExtBases, h \in ExtHandles, t \in ExtTrailing,
                               q \in ExtQueries } \cup {""}

RECURSIVE Ext_lstrip(_, _)
\* s.lstrip(ch)
Ext_lstrip(s, ch) == IF Len(s) > 0 /\ Char(s, 1) = ch THEN Ext_lstrip(Tail(s), ch) ELSE s

\* extract_handle of enrich_musicbrainz_dj_producers.py; None is NaN
MBDJ_extract_handle(url) ==
    IF url = "" \/ isna(url) THEN NaN
    ELSE LET clean == SplitFirst(rstrip(url, "/"), "?")
             handle == SplitLast(clean, "/")
         IN  IF handle /= "" THEN Ext_lstrip(handle, "@") ELSE NaN

ExtScripts == {"enrich_musicbrainz", "enrich_all_artists_musicbrainz",
               "enrich_musicbrainz_dj_producers"}

ExtInit ==
    /\ ext_url \in ExtUrls
    /\ ext_out = [s \in ExtScripts |-> NaN]
    /\ ext_done = {}

ExtMusicBrainz ==
    /\ ext_url /= Idle /\ "enrich_musicbrainz" \notin ext_done
    /\ ext_out' = [ext_out EXCEPT !["enrich_musicbrainz"] = MB_extract_handle(ext_url)]
    /\ ext_done' = ext_done \cup {"enrich_musicbrainz"}
    /\ UNCHANGED ext_url
    /\ UNCHANGED othersExt

ExtAllArtists ==
    /\ ext_url /= Idle /\ "enrich_all_artists_musicbrainz" \notin ext_done
    /\ ext_out' = [ext_out EXCEPT
                      !["enrich_all_artists_musicbrainz"] = All_extract_handle(ext_url)]
    /\ ext_done' = ext_done \cup {"enrich_all_artists_musicbrainz"}
    /\ UNCHANGED ext_url
    /\ UNCHANGED othersExt

ExtDjProducers ==
    /\ ext_url /= Idle /\ "enrich_musicbrainz_dj_producers" \notin ext_done
    /\ ext_out' = [ext_out EXCEPT
                      !["enrich_musicbrainz_dj_producers"] = MBDJ_extract_handle(ext_url)]
    /\ ext_done' = ext_done \cup {"enrich_musicbrainz_dj_producers"}
    /\ UNCHANGED ext_url
    /\ UNCHANGED othersExt

InitExtract == ExtInit /\ IdleRem /\ IdleMis /\ IdleChunk /\ IdleMB /\ IdleAll /\ IdleSLP /\ IdleSch /\ IdleSel /\ IdleTok /\ IdleSt /\ IdlePar /\ IdleFill /\ IdleGs /\ IdleMr
NextExtract == ExtMusicBrainz \/ ExtAllArtists \/ ExtDjProducers
SpecExtract == InitExtract /\ [][NextExtract]_vars

\* the final path segment of the URL once the query string and the
\* trailing slashes are gone, without a leading '@'; none for no URL
C22_expected(url) ==
    LET path == rstrip(SplitFirst(url, "?"), "/")
        segment == SplitLast(path, "/")
    IN  IF url = "" THEN NaN
        ELSE IF segment /= "" /\ Char(segment, 1) = "@" THEN Tail(segment)
        ELSE segment

\* C22 as stated: for every non-empty URL, one with a trailing slash and a
\* query string included, extract_handle returns the final path segment
\* after the trailing slash and the query string are stripped, without a
\* leading '@'; none for an empty URL.
C22_HandleIsFinalSegment ==
    ext_url /= Idle => \A s \in ext_done : ext_out[s] = C22_expected(ext_url)

(***************************************************************************)
(* fill_rappers_social_links.py                                            *)
(***************************************************************************)
FillNames == {"Drake", "Lil Baby", "T-Pain", "A$AP Rocky", "AC/DC", "..."}
\* handles the input table may give; NaN is an empty cell
FillHandles == {NaN, "champagnepapi", "lil.baby", "asap_rocky", "tpain"}
FillPlatforms == {"instagram", "twitter", "tiktok"}

RECURSIVE Fill_run(_, _, _)
\* the longest start of s made of characters that are in chars (allow) or
\* that are not in chars (~allow): what a greedy character class matches
Fill_run(s, chars, allow) ==
    IF s /= "" /\ (Contains(chars, Char(s, 1)) <=> allow)
    THEN Char(s, 1) \o Fill_run(Tail(s), chars, allow)
    ELSE ""

RECURSIVE Fill_search(_, _, _, _)
\* re.search(prefix followed by one or more characters of the class, url),
\* group 1 of the leftmost match; NaN when nothing matches
Fill_search(url, prefix, chars, allow) ==
    IF Len(url) < Len(prefix) THEN NaN
    ELSE LET group == Fill_run(SubSeq(url, Len(prefix) + 1, Len(url)), chars, allow) IN
         IF SubSeq(url, 1, Len(prefix)) = prefix /\ group /= "" THEN group
         ELSE Fill_search(Tail(url), prefix, chars, allow)

extract_handle_from_url(url, platform) ==
    IF isna(url) \/ url = "" THEN NaN
    ELSE CASE platform = "instagram" -> Fill_search(url, "instagram.com/", "/", FALSE)
           [] platform = "twitter" -> Fill_search(url, "twitter.com/", "/", FALSE)
           [] platform = "tiktok" ->
                Fill_search(url, "@",
                   "abcdefghijklmnopqrstuvwxyzABCDEFGHIJKLMNOPQRSTUVWXYZ0123456789_.", TRUE)
           [] OTHER -> NaN

RECURSIVE Fill_remove(_, _)
\* s with the characters of chars removed
Fill_remove(s, chars) ==
    IF s = "" THEN ""
    ELSE (IF Contains(chars, Char(s, 1)) THEN "" ELSE Char(s, 1))
         \o Fill_remove(Tail(s), chars)

\* artist_name.lower().replace(' ', '').replace('-', '').replace('.', '')
\* .replace("'", '')
Fill_clean_name(artist_name) == Fill_remove(Sel_lower(artist_name), " -.'")

Fill_base(platform) ==
    CASE platform = "instagram" -> "https://instagram.com/"
      [] platform = "twitter" -> "https://twitter.com/"
      [] platform = "tiktok" -> "https://tiktok.com/@"
      [] OTHER -> "https://www.youtube.com/@"

\* construct_social_url; NaN for handle is handle=None
construct_social_url(artist_name, platform, handle) ==
    IF ~isna(handle) /\ handle /= "" THEN Fill_base(platform) \o handle
    ELSE Fill_base(platform) \o Fill_clean_name(artist_name)

FillInit ==
    /\ fill_name \in FillNames
    /\ fill_handle \in FillHandles
    /\ fill_platform \in FillPlatforms
    /\ fill_out = [pc |-> "row", url |-> NaN, used |-> NaN, back |-> NaN, stored |-> NaN]

\* main on a row with a handle and no URL: the URL is built from the handle
FillFromHandle ==
    /\ fill_out.pc = "row" /\ ~isna(fill_handle)
    /\ LET url == construct_social_url(fill_name, fill_platform, fill_handle) IN
       fill_out' = [pc |-> "done", url |-> url, used |-> fill_handle,
                    back |-> extract_handle_from_url(url, fill_platform),
                    stored |-> fill_handle]
    /\ UNCHANGED <<fill_name, fill_handle, fill_platform>>
    /\ UNCHANGED othersFill

\* main on a row with neither: the URL is built from the cleaned name; the
\* handle stored is extracted from it (instagram, twitter) or is the
\* cleaned name (tiktok)
FillFromName ==
    /\ fill_out.pc = "row" /\ isna(fill_handle)
    /\ LET url == construct_social_url(fill_name, fill_platform, NaN)
           back == extract_handle_from_url(url, fill_platform)
       IN  fill_out' = [pc |-> "done", url |-> url, used |-> Fill_clean_name(fill_name),
                        back |-> back,
                        stored |-> IF fill_platform = "tiktok"
                                   THEN Fill_clean_name(fill_name) ELSE back]
    /\ UNCHANGED <<fill_name, fill_handle, fill_platform>>
    /\ UNCHANGED othersFill

InitFill == FillInit /\ IdleRem /\ IdleMis /\ IdleChunk /\ IdleMB /\ IdleAll /\ IdleSLP /\ IdleSch /\ IdleSel /\ IdleTok /\ IdleSt /\ IdlePar /\ IdleExt /\ IdleGs /\ IdleMr
NextFill == FillFromHandle \/ FillFromName
SpecFill == InitFill /\ [][NextFill]_vars

\* C23 as stated: for every platform and every handle the templater uses,
\* a given one or the cleaned artist name, extracting the handle from the
\* URL built from it gives the handle back, and the handle stored beside
\* the guessed URL is the handle the URL was built from.
C23_ExtractionRoundTrip ==
    fill_out.pc = "done" => (fill_out.back = fill_out.used /\ fill_out.stored = fill_out.used)

(***************************************************************************)
(* URL guessing: create_rappers_final.py,                                  *)
(* filter_user_generated_christmas_playlists.py, update_dj_sql_to_excel.py *)
(***************************************************************************)
GsNames == {"Drake", "Lil Baby", "The !!!", "!!!", "$ $", ". & -", "Noel Music", "??? Records"}
GsScripts == {"create_rappers_final", "filter_user_generated_christmas_playlists",
              "update_dj_sql_to_excel"}
GsPlatforms == {"instagram", "tiktok", "twitter"}
GsKept == "abcdefghijklmnopqrstuvwxyz0123456789_"

RECURSIVE Gs_keep(_, _)
\* re.sub(r'[^a-z0-9_]', '', s): s with only the characters of chars
Gs_keep(s, chars) ==
    IF s = "" THEN ""
    ELSE (IF Contains(chars, Char(s, 1)) THEN Char(s, 1) ELSE "") \o Gs_keep(Tail(s), chars)

\* re.sub(r'^(lil|young|big|the)\s+', '', s)
Gs_no_prefix(s) ==
    LET cut(word) == Len(s) > Len(word) /\ SubSeq(s, 1, Len(word)) = word
                     /\ Char(s, Len(word) + 1) = " "
        rest(word) == Ext_lstrip(SubSeq(s, Len(word) + 1, Len(s)), " ")
    IN  CASE cut("lil") -> rest("lil")
          [] cut("young") -> rest("young")
          [] cut("big") -> rest("big")
          [] cut("the") -> rest("the")
          [] OTHER -> s

\* re.sub(r'\s+(music|records|magazine|recordings)\s*$', '', s)
Gs_no_suffix(s) ==
    LET t == rstrip(s, " ")
        cut(word) == Len(t) > Len(word) /\ SubSeq(t, Len(t) - Len(word) + 1, Len(t)) = word
                     /\ Char(t, Len(t) - Len(word)) = " "
        rest(word) == rstrip(SubSeq(t, 1, Len(t) - Len(word)), " ")
    IN  CASE cut("music") -> rest("music")
          [] cut("recordings") -> rest("recordings")
          [] cut("records") -> rest("records")
          [] cut("magazine") -> rest("magazine")
          [] OTHER -> s

\* clean_artist_name_for_handle of create_rappers_final.py; None is NaN
CRF_clean_artist_name_for_handle(artist_name) ==
    LET clean == Gs_keep(Gs_no_prefix(Sel_lower(artist_name)), GsKept) IN
    IF isna(artist_name) \/ artist_name = "" \/ clean = "" THEN NaN ELSE clean

Gs_url(platform, handle) ==
    CASE platform = "instagram" -> "https://www.instagram.com/" \o handle
      [] platform = "tiktok" -> "https://www.tiktok.com/@" \o handle
      [] OTHER -> "https://twitter.com/" \o handle

\* construct_instagram_url, construct_tiktok_url and construct_twitter_url
\* of create_rappers_final.py for a row without instagram_handle, and what
\* main writes of their result
CRF_guess(artist_name, platform) ==
    LET handle == CRF_clean_artist_name_for_handle(artist_name) IN
    IF ~isna(handle) THEN [url |-> Gs_url(platform, handle), handle |-> handle]
    ELSE [url |-> NaN, handle |-> NaN]

\* the contact_info of main of filter_user_generated_christmas_playlists.py
Filter_guess(owner, platform) ==
    LET handle == Gs_keep(Gs_no_suffix(Sel_lower(owner)), GsKept) IN
    [url |-> Gs_url(platform, handle), handle |-> handle]

\* the cells update_dj_sql_to_excel.py sets for a new artist
Update_guess(artist_name, platform) ==
    LET handle == Fill_remove(Sel_lower(artist_name), " .&-") IN
    [url |-> Gs_url(platform, handle), handle |-> handle]

GsInit ==
    /\ gs_name \in GsNames
    /\ gs_script \in GsScripts
    /\ gs_platform \in GsPlatforms
    /\ gs_out = [pc |-> "row", url |-> NaN, handle |-> NaN]

GsCreateRappersFinal ==
    /\ gs_out.pc = "row" /\ gs_script = "create_rappers_final"
    /\ LET g == CRF_guess(gs_name, gs_platform) IN
       gs_out' = [pc |-> "done", url |-> g.url, handle |-> g.handle]
    /\ UNCHANGED <<gs_name, gs_script, gs_platform>>
    /\ UNCHANGED othersGs

GsFilterPlaylists ==
    /\ gs_out.pc = "row" /\ gs_script = "filter_user_generated_christmas_playlists"
    /\ LET g == Filter_guess(gs_name, gs_platform) IN
       gs_out' = [pc |-> "done", url |-> g.url, handle |-> g.handle]
    /\ UNCHANGED <<gs_name, gs_script, gs_platform>>
    /\ UNCHANGED othersGs

GsUpdateDjSql ==
    /\ gs_out.pc = "row" /\ gs_script = "update_dj_sql_to_excel"
    /\ LET g == Update_guess(gs_name, gs_platform) IN
       gs_out' = [pc |-> "done", url |-> g.url, handle |-> g.handle]
    /\ UNCHANGED <<gs_name, gs_script, gs_platform>>
    /\ UNCHANGED othersGs

InitGuess == GsInit /\ IdleRem /\ IdleMis /\ IdleChunk /\ IdleMB /\ IdleAll /\ IdleSLP /\ IdleSch /\ IdleSel /\ IdleTok /\ IdleSt /\ IdlePar /\ IdleExt /\ IdleFill /\ IdleMr
NextGuess == GsCreateRappersFinal \/ GsFilterPlaylists \/ GsUpdateDjSql
SpecGuess == InitGuess /\ [][NextGuess]_vars

\* C24 as stated: for a name with no character of [a-z0-9_] once
\* lower-cased the templaters write no guessed URL and no handle; no row
\* ever holds an empty-string handle or a URL built from an empty handle.
C24_NoGuessFromEmptyHandle ==
    gs_out.pc = "done" =>
        /\ Gs_keep(Sel_lower(gs_name), GsKept) = "" => (isna(gs_out.url) /\ isna(gs_out.handle))
        /\ gs_out.handle /= ""
        /\ gs_out.url /= Gs_url(gs_platform, "")

(***************************************************************************)
(* SoundchartsClient._make_request, step by step                           *)
(*                                                                         *)
(* A run makes one call per artist.  A call sends a request, the server    *)
(* answers, and on a 429 the call sleeps and calls itself.  The            *)
(* interpreter raises RecursionError when the call stack reaches its       *)
(* limit (1000 frames by default); the limit of the model counts the       *)
(* nested calls of _make_request alone.                                    *)
(***************************************************************************)
Mr_RECURSION_LIMIT == 3
\* artists of a run
MrArtists == 3
MrAnswers == {"200", "404", "429", "500", "network_error"}

\* an interpreter without a limit on the depth of the call stack
Mr_no_recursion_limit(depth) == FALSE

\* whether the call at this depth of the recursion exceeds the stack
Mr_recursion_error(depth) == depth >= Mr_RECURSION_LIMIT

MrInit ==
    /\ mr_artist = 1
    /\ mr_pc = "call"
    /\ mr_depth = 0
    /\ mr_outcomes = <<>>

\* _make_request is entered and session.get sends the request; at the
\* limit of the stack the call raises RecursionError instead, which no
\* except clause of _make_request catches
MrSend ==
    /\ mr_pc = "call"
    /\ IF Mr_recursion_error(mr_depth)
       THEN /\ mr_pc' = "raised"
            /\ mr_outcomes' = Append(mr_outcomes, "RecursionError")
       ELSE /\ mr_pc' = "sent"
            /\ UNCHANGED mr_outcomes
    /\ UNCHANGED <<mr_artist, mr_depth>>
    /\ UNCHANGED othersMr

\* the server answers, or the request fails within its timeout
MrAnswer ==
    /\ mr_pc = "sent"
    /\ \E a \in MrAnswers :
          CASE a = "200" -> /\ mr_pc' = "returned"
                            /\ mr_outcomes' = Append(mr_outcomes, "json")
            [] a = "404" -> /\ mr_pc' = "returned"
                            /\ mr_outcomes' = Append(mr_outcomes, "None")
            [] a = "429" -> /\ mr_pc' = "sleeping"
                            /\ UNCHANGED mr_outcomes
            [] OTHER -> /\ mr_pc' = "raised"
                        /\ mr_outcomes' = Append(mr_outcomes, a)
    /\ UNCHANGED <<mr_artist, mr_depth>>
    /\ UNCHANGED othersMr

\* time.sleep(60) ends and _make_request calls itself
MrRetry ==
    /\ mr_pc = "sleeping"
    /\ mr_pc' = "call"
    /\ mr_depth' = IF mr_depth < Mr_RECURSION_LIMIT THEN mr_depth + 1 ELSE mr_depth
    /\ UNCHANGED <<mr_artist, mr_outcomes>>
    /\ UNCHANGED othersMr

\* the call has returned, or enrich_artist has caught what it raised: the
\* loop of run_enrichment_pipeline goes on to the next artist
MrNextArtist ==
    /\ mr_pc \in {"returned", "raised"}
    /\ mr_artist < MrArtists
    /\ mr_artist' = mr_artist + 1
    /\ mr_pc' = "call"
    /\ mr_depth' = 0
    /\ UNCHANGED mr_outcomes
    /\ UNCHANGED othersMr

InitMakeRequest == MrInit /\ IdleRem /\ IdleMis /\ IdleChunk /\ IdleMB /\ IdleAll /\ IdleSLP /\ IdleSch /\ IdleSel /\ IdleTok /\ IdleSt /\ IdlePar /\ IdleExt /\ IdleFill /\ IdleGs
NextMakeRequest == MrSend \/ MrAnswer \/ MrRetry \/ MrNextArtist
\* every step is a step of the one thread or an answer that arrives within
\* the timeout of the request, so a step that can be taken is taken
SpecMakeRequest == InitMakeRequest /\ [][NextMakeRequest]_vars /\ WF_vars(NextMakeRequest)

====
